---- MODULE Spec2Model ----
(***************************************************************************)
(* System Diagnostics MCP server (system_diagnostics_mcp/server.py).       *)
(*                                                                         *)
(* The server is a tool registry (handle_list_tools), a dispatcher         *)
(* (handle_call_tool) and thirteen handlers that read the host through     *)
(* psutil / platform / subprocess and return one text block.  The host is  *)
(* the environment: every call draws what the providers answer (values,    *)
(* or the exception they raise) from bounded sets.                         *)
(*                                                                         *)
(* Python values whose type matters (tool arguments, provider fields that  *)
(* may be None) are tagged pairs <<type, value>>.  Percentages are kept in *)
(* thirds of a hundredth of a percent, so that round(x, 2) is a real       *)
(* rounding and never a tie.                                               *)
(***************************************************************************)
EXTENDS Integers, Sequences, FiniteSets, TLC

(***************************************************************************)
(* Bounds of the model.                                                    *)
(***************************************************************************)
MaxProcs == 3       \* processes the provider enumerates in one call
MaxRaw == 2         \* largest raw percentage reading (thirds of 0.01 %)
MaxLimit == 2       \* largest value of an integer "limit" argument
MaxParts == 2       \* mounted partitions
MaxLogs == 3        \* entries a log source holds
MaxDuration == 2    \* largest explicit "duration" argument
MaxOther == 2       \* steps another task of the event loop has ready

(***************************************************************************)
(* Python values.                                                          *)
(***************************************************************************)
PyInt(n) == <<"int", n>>
PyStr(s) == <<"str", s>>
PyBool(b) == <<"bool", b>>
PyNone == <<"none", 0>>
TypeOf(v) == v[1]
ValOf(v) == v[2]

\* dict.get(key, default)
Get(arguments, key, default) ==
    IF key \in DOMAIN arguments THEN arguments[key] ELSE default

\* bool(v): the truth value Python gives a value in an `if`
Truthy(v) ==
    CASE TypeOf(v) = "bool" -> ValOf(v)
      [] TypeOf(v) = "int" -> ValOf(v) # 0
      [] TypeOf(v) = "str" -> ValOf(v) # ""
      [] OTHER -> FALSE

(***************************************************************************)
(* Exceptions.  An exception is its class and the words of str(e).         *)
(***************************************************************************)
NoExc == [type |-> "none", msg |-> <<>>]
Exc(t, m) == [type |-> t, msg |-> m]

\* the class hierarchy below Exception, child -> parent
ParentClass(t) ==
    CASE t \in {"PermissionError", "FileNotFoundError"} -> "OSError"
      [] t \in {"NoSuchProcess", "AccessDenied"} -> "psutil.Error"
      [] t = "ImportError" -> "Exception"
      [] OTHER -> "Exception"

\* isinstance(e, cls) for the classes the except clauses of the server name
IsInstance(t, cls) ==
    \/ cls = "Exception"
    \/ t = cls
    \/ ParentClass(t) = cls

\* `except (c1, c2, ...)`: does the clause catch an exception of class t
Catches(classes, t) == \E cls \in classes : IsInstance(t, cls)

TypeErrorRound == Exc("TypeError", <<"type", "NoneType", "doesn't", "define", "__round__", "method">>)
TypeErrorSlice == Exc("TypeError", <<"slice", "indices", "must", "be", "integers">>)
TypeErrorRange == Exc("TypeError", <<"'str'", "object", "cannot", "be", "interpreted", "as", "an", "integer">>)
AttributeErrorRss == Exc("AttributeError", <<"'NoneType'", "object", "has", "no", "attribute", "'rss'">>)
AttributeErrorHelper ==
    Exc("AttributeError", <<"'SystemDiagnosticsServer'", "object", "has", "no",
                            "attribute", "'_get_motherboard_info'">>)
ZeroDivisionError == Exc("ZeroDivisionError", <<"division", "by", "zero">>)

\* what a failing data source raises
ProviderFailures ==
    { Exc("Exception", <<"Test", "error">>),
      Exc("PermissionError", <<"Permission", "denied">>),
      Exc("AccessDenied", <<"psutil.AccessDenied">>) }
ProviderOutcomes == {NoExc} \cup ProviderFailures

(***************************************************************************)
(* Results.  A handler either returns a list of content blocks or lets an  *)
(* exception propagate.  The text of a block is a JSON document (kept as   *)
(* the value json.dumps was given), Markdown lines, or plain words.        *)
(***************************************************************************)
TextContent(t) == [type |-> "text", text |-> t]
Returned(blocks) == [outcome |-> "returned", content |-> blocks, exc |-> NoExc]
Raised(e) == [outcome |-> "raised", content |-> <<>>, exc |-> e]

JsonText(doc) == [fmt |-> "json", doc |-> doc]
PlainText(words) == [fmt |-> "plain", words |-> words]
MarkdownText(lines) == [fmt |-> "markdown", lines |-> lines]

\* f"Error: {str(e)}"
ErrorText(e) == PlainText(<<"Error:">> \o e.msg)

(***************************************************************************)
(* The process provider (psutil.process_iter).  It yields the processes in *)
(* ascending pid order.  A process that vanished or denies access shows in *)
(* one of two ways: reading proc.info raises NoSuchProcess / AccessDenied, *)
(* or the denied fields come back as None (psutil's ad_value).             *)
(***************************************************************************)
PyFloat(r) == <<"float", r>>

ProcNames == <<"Xorg", "bash", "init">>     \* in code point order
NameRank(s) == CHOOSE i \in 1..Len(ProcNames) : ProcNames[i] = s
NameOfPid(pid) == ProcNames[Len(ProcNames) - ((pid - 1) % Len(ProcNames))]

ProcFaults == {"NoSuchProcess", "AccessDenied", "missing"}

\* one enumerated process: raw readings and the way it misbehaves, if any
Proc(pid, cpu, mem, fault) ==
    [pid |-> pid, name |-> NameOfPid(pid), cpu |-> cpu, mem |-> mem, fault |-> fault]

\* proc.info: the attribute dict, or the exception reading it raises
ProcInfoRaises(p) ==
    IF p.fault \in {"NoSuchProcess", "AccessDenied"}
    THEN Exc(p.fault, <<"process", "no", "longer", "readable">>)
    ELSE NoExc
ProcInfo(p) ==
    [pid |-> PyInt(p.pid),
     name |-> PyStr(p.name),
     cpu_percent |-> IF p.fault = "missing" THEN PyNone ELSE PyFloat(p.cpu),
     memory_percent |-> IF p.fault = "missing" THEN PyNone ELSE PyFloat(p.mem),
     memory_info |-> IF p.fault = "missing" THEN PyNone ELSE PyInt(p.mem)]

\* round(x, 2) of a reading in thirds of 0.01: the nearest hundredth
Round2(raw) == (raw + 1) \div 3
\* round(v, 2) raises TypeError on None
Round2Raises(v) == IF TypeOf(v) \in {"float", "int"} THEN NoExc ELSE TypeErrorRound

(***************************************************************************)
(* list.sort(key=..., reverse=...): stable, by one field of the records;   *)
(* names compare by code point.                                            *)
(***************************************************************************)
KeyOf(rec, field) == IF field = "name" THEN NameRank(rec.name) ELSE rec[field]

\* rec goes after every element that does not have to follow it
RECURSIVE InsertSorted(_, _, _, _)
InsertSorted(sorted, rec, field, reverse) ==
    IF sorted = <<>> THEN <<rec>>
    ELSE LET last == sorted[Len(sorted)]
             stays == IF reverse THEN KeyOf(last, field) >= KeyOf(rec, field)
                                 ELSE KeyOf(last, field) <= KeyOf(rec, field)
         IN IF stays THEN Append(sorted, rec)
            ELSE Append(InsertSorted(SubSeq(sorted, 1, Len(sorted) - 1), rec, field, reverse), last)

RECURSIVE SortBy(_, _, _)
SortBy(seq, field, reverse) ==
    IF seq = <<>> THEN <<>>
    ELSE InsertSorted(SortBy(SubSeq(seq, 1, Len(seq) - 1), field, reverse),
                      seq[Len(seq)], field, reverse)

\* seq[:stop] for an integer stop (a negative stop counts from the end)
Slice(seq, stop) ==
    LET n == Len(seq)
        upto == IF stop < 0 THEN (IF n + stop < 0 THEN 0 ELSE n + stop)
                ELSE (IF stop > n THEN n ELSE stop)
    IN SubSeq(seq, 1, upto)
\* seq[:v] for a Python value v: None is "to the end", a bool is 0 or 1
SliceRaises(v) == IF TypeOf(v) \in {"int", "bool", "none"} THEN NoExc ELSE TypeErrorSlice
SlicePy(seq, v) ==
    CASE TypeOf(v) = "int" -> Slice(seq, ValOf(v))
      [] TypeOf(v) = "bool" -> Slice(seq, IF ValOf(v) THEN 1 ELSE 0)
      [] OTHER -> seq

(***************************************************************************)
(* get_processes                                                           *)
(***************************************************************************)
\* the classes the per-process `except` of get_processes names
ProcessLoopCatches == {"NoSuchProcess", "AccessDenied"}

\* the record appended for one process (status, threads and created are
\* copied through like pid and are left out)
ProcessRecord(pinfo) ==
    [pid |-> ValOf(pinfo.pid),
     name |-> ValOf(pinfo.name),
     cpu_percent |-> Round2(ValOf(pinfo.cpu_percent)),
     memory_percent |-> Round2(ValOf(pinfo.memory_percent))]

\* what one iteration of the loop body raises, before the inner except
ProcessRecordRaises(p) ==
    IF ProcInfoRaises(p) # NoExc THEN ProcInfoRaises(p)
    ELSE IF Round2Raises(ProcInfo(p).cpu_percent) # NoExc
         THEN Round2Raises(ProcInfo(p).cpu_percent)
         ELSE Round2Raises(ProcInfo(p).memory_percent)

\* the for loop: [exc, val]; an exception the inner except does not catch
\* leaves the loop
RECURSIVE CollectProcesses(_, _)
CollectProcesses(procs, acc) ==
    IF procs = <<>> THEN [exc |-> NoExc, val |-> acc]
    ELSE LET e == ProcessRecordRaises(Head(procs))
         IN IF e = NoExc
            THEN CollectProcesses(Tail(procs), Append(acc, ProcessRecord(ProcInfo(Head(procs)))))
            ELSE IF Catches(ProcessLoopCatches, e.type)
                 THEN CollectProcesses(Tail(procs), acc)
                 ELSE [exc |-> e, val |-> acc]

\* every key sorted in ascending order
SortProcessesAscending(processes, sort_by) ==
    CASE sort_by = PyStr("cpu") -> SortBy(processes, "cpu_percent", FALSE)
      [] sort_by = PyStr("memory") -> SortBy(processes, "memory_percent", FALSE)
      [] sort_by = PyStr("name") -> SortBy(processes, "name", FALSE)
      [] sort_by = PyStr("pid") -> SortBy(processes, "pid", FALSE)
      [] OTHER -> processes

SortProcesses(processes, sort_by) ==
    CASE sort_by = PyStr("cpu") -> SortBy(processes, "cpu_percent", TRUE)
      [] sort_by = PyStr("memory") -> SortBy(processes, "memory_percent", TRUE)
      [] sort_by = PyStr("name") -> SortBy(processes, "name", FALSE)
      [] sort_by = PyStr("pid") -> SortBy(processes, "pid", FALSE)
      [] OTHER -> processes

HandlerCatchesNarrow == {"NoSuchProcess", "AccessDenied"}

\* the classes the outer `except` of a handler names
HandlerCatches == {"Exception"}

TryHandlerEmptyOnError(bodyExc, bodyText, errorText) ==
    IF bodyExc = NoExc THEN Returned(<<TextContent(bodyText)>>)
    ELSE IF Catches(HandlerCatches, bodyExc.type)
         THEN Returned(<<>>)
         ELSE Raised(bodyExc)

\* try: body / except Exception as e: return the error text
TryHandler(bodyExc, bodyText, errorText) ==
    IF bodyExc = NoExc THEN Returned(<<TextContent(bodyText)>>)
    ELSE IF Catches(HandlerCatches, bodyExc.type)
         THEN Returned(<<TextContent(errorText)>>)
         ELSE Raised(bodyExc)

get_processes(arguments, env) ==
    LET sort_by == Get(arguments, "sort_by", PyStr("cpu"))
        limit == Get(arguments, "limit", PyInt(20))
        loop == CollectProcesses(env.procs, <<>>)
        processes == SortProcesses(loop.val, sort_by)
        bodyExc == IF env.raises # NoExc THEN env.raises
                   ELSE IF loop.exc # NoExc THEN loop.exc
                   ELSE SliceRaises(limit)
        doc == [processes |-> SlicePy(processes, limit),
                total |-> Len(processes)]
    IN TryHandler(bodyExc, JsonText(doc), ErrorText(bodyExc))

(***************************************************************************)
(* get_system_info                                                         *)
(***************************************************************************)
SecondsPerDay == 86400
SecondsPerHour == 3600

\* psutil.cpu_count(logical=False) or 0
OrZero(v) == IF Truthy(v) THEN ValOf(v) ELSE 0

\* the core count taken from a reading that moves between calls
get_system_info_from_uptime(self, arguments, env) ==
    LET info == [os_type |-> self.os_type,
                 hostname |-> env.hostname,
                 architecture |-> env.machine,
                 physical_cores |-> env.uptime_seconds \div SecondsPerDay,
                 logical_cores |-> OrZero(env.logical_cores)]
        doc == [system_info |-> info, uptime |-> [days |-> 0, hours |-> 0]]
    IN TryHandler(env.raises, JsonText(doc), ErrorText(env.raises))

get_system_info(self, arguments, env) ==
    LET info == [os_type |-> self.os_type,        \* platform.system() of the same host
                 hostname |-> env.hostname,
                 architecture |-> env.machine,
                 physical_cores |-> OrZero(env.physical_cores),
                 logical_cores |-> OrZero(env.logical_cores)]
        uptime_days == env.uptime_seconds \div SecondsPerDay
        uptime_hours == (env.uptime_seconds % SecondsPerDay) \div SecondsPerHour
        doc == [system_info |-> info, uptime |-> [days |-> uptime_days, hours |-> uptime_hours]]
    IN TryHandler(env.raises, JsonText(doc), ErrorText(env.raises))

(***************************************************************************)
(* get_cpu_metrics                                                         *)
(***************************************************************************)
ValueErrorInterval == Exc("ValueError", <<"interval", "is", "not", "positive">>)
TypeErrorCompare == Exc("TypeError", <<"'<'", "not", "supported", "between", "'str'", "and", "'int'">>)

\* psutil.cpu_percent(interval=...): a negative interval is refused
CpuPercentRaises(interval) ==
    CASE TypeOf(interval) = "str" -> TypeErrorCompare
      [] TypeOf(interval) \in {"int", "float"} /\ ValOf(interval) < 0 -> ValueErrorInterval
      [] OTHER -> NoExc
\* it sleeps for the interval when the interval is positive
CpuPercentSleeps(interval) ==
    TypeOf(interval) \in {"int", "float"} /\ ValOf(interval) > 0

get_cpu_metrics(arguments, env) ==
    LET per_core == Get(arguments, "per_core", PyBool(FALSE))
        interval == Get(arguments, "interval", PyInt(1))
        bodyExc == IF CpuPercentRaises(interval) # NoExc THEN CpuPercentRaises(interval)
                   ELSE env.raises
        usage == IF Truthy(per_core) THEN <<env.usage, env.usage>> ELSE <<env.usage>>
        doc == IF env.freq
               THEN [usage_percent |-> usage, frequency |-> "current,min,max", stats |-> "stats", times |-> "times"]
               ELSE [usage_percent |-> usage, frequency |-> "", stats |-> "stats", times |-> "times"]
    IN TryHandler(bodyExc, JsonText(doc), ErrorText(bodyExc))

(***************************************************************************)
(* get_memory_metrics                                                      *)
(***************************************************************************)
TopMemoryProcesses == 10

MemoryLoopCatches == {"NoSuchProcess", "AccessDenied"}

MemoryRecord(pinfo) ==
    [pid |-> ValOf(pinfo.pid),
     name |-> ValOf(pinfo.name),
     memory_percent |-> Round2(ValOf(pinfo.memory_percent)),
     memory_mb |-> ValOf(pinfo.memory_info)]

\* round(memory_percent) comes first, then memory_info.rss
MemoryRecordRaises(p) ==
    IF ProcInfoRaises(p) # NoExc THEN ProcInfoRaises(p)
    ELSE IF Round2Raises(ProcInfo(p).memory_percent) # NoExc
         THEN Round2Raises(ProcInfo(p).memory_percent)
         ELSE IF TypeOf(ProcInfo(p).memory_info) = "none" THEN AttributeErrorRss ELSE NoExc

RECURSIVE CollectMemory(_, _)
CollectMemory(procs, acc) ==
    IF procs = <<>> THEN [exc |-> NoExc, val |-> acc]
    ELSE LET e == MemoryRecordRaises(Head(procs))
         IN IF e = NoExc
            THEN CollectMemory(Tail(procs), Append(acc, MemoryRecord(ProcInfo(Head(procs)))))
            ELSE IF Catches(MemoryLoopCatches, e.type)
                 THEN CollectMemory(Tail(procs), acc)
                 ELSE [exc |-> e, val |-> acc]

get_memory_metrics(arguments, env) ==
    LET include_processes == Get(arguments, "include_processes", PyBool(FALSE))
        loop == CollectMemory(env.procs, <<>>)
        processes == SortBy(loop.val, "memory_percent", TRUE)
        bodyExc == IF env.raises # NoExc THEN env.raises
                   ELSE IF Truthy(include_processes) THEN loop.exc ELSE NoExc
        base == [virtual_memory |-> [percent |-> env.vm_percent],
                 swap_memory |-> [percent |-> env.swap_percent]]
        doc == IF Truthy(include_processes)
               THEN [virtual_memory |-> base.virtual_memory,
                     swap_memory |-> base.swap_memory,
                     top_processes |-> Slice(processes, TopMemoryProcesses)]
               ELSE base
    IN TryHandler(bodyExc, JsonText(doc), ErrorText(bodyExc))

(***************************************************************************)
(* get_storage_metrics                                                     *)
(***************************************************************************)
\* the class the per-partition `except` names
PartitionLoopCatches == {"PermissionError"}

\* _get_windows_drive_type / _get_macos_drive_type swallow every failure
DriveType(self, part) ==
    IF self.os_type \in {"Windows", "Darwin"} THEN part.media ELSE "Unknown"

\* the loop left at the first partition that denies access
RECURSIVE CollectPartitionsBreak(_, _, _)
CollectPartitionsBreak(self, parts, acc) ==
    IF parts = <<>> THEN [exc |-> NoExc, val |-> acc]
    ELSE LET part == Head(parts)
         IN IF part.usage = NoExc
            THEN CollectPartitionsBreak(self, Tail(parts),
                     Append(acc, [device |-> part.device, type |-> part.media]))
            ELSE [exc |-> NoExc, val |-> acc]

RECURSIVE CollectPartitions(_, _, _)
CollectPartitions(self, parts, acc) ==
    IF parts = <<>> THEN [exc |-> NoExc, val |-> acc]
    ELSE LET part == Head(parts)
         IN IF part.usage = NoExc
            THEN CollectPartitions(self, Tail(parts),
                     Append(acc, [device |-> part.device, type |-> DriveType(self, part)]))
            ELSE IF Catches(PartitionLoopCatches, part.usage.type)
                 THEN CollectPartitions(self, Tail(parts), acc)
                 ELSE [exc |-> part.usage, val |-> acc]

get_storage_metrics(self, arguments, env) ==
    LET include_io == Get(arguments, "include_io_stats", PyBool(FALSE))
        loop == CollectPartitions(self, env.parts, <<>>)
        bodyExc == IF env.raises # NoExc THEN env.raises
                   ELSE IF loop.exc # NoExc THEN loop.exc
                   ELSE IF Truthy(include_io) THEN env.io_raises ELSE NoExc
        doc == IF Truthy(include_io)
               THEN [partitions |-> loop.val, io_stats |-> "per disk"]
               ELSE [partitions |-> loop.val]
    IN TryHandler(bodyExc, JsonText(doc), ErrorText(bodyExc))

(***************************************************************************)
(* get_network_metrics (interfaces and connections are kept as counts)     *)
(***************************************************************************)
MaxConnections == 50

get_network_metrics(arguments, env) ==
    LET include_connections == Get(arguments, "include_connections", PyBool(FALSE))
        bodyExc == IF env.raises # NoExc THEN env.raises
                   ELSE IF Truthy(include_connections) THEN env.conn_raises ELSE NoExc
        shown == IF env.connections > MaxConnections THEN MaxConnections ELSE env.connections
        doc == IF Truthy(include_connections)
               THEN [interfaces |-> env.interfaces, connections |-> shown]
               ELSE [interfaces |-> env.interfaces]
    IN TryHandler(bodyExc, JsonText(doc), ErrorText(bodyExc))

(***************************************************************************)
(* get_installed_applications.  Every platform probe swallows its own      *)
(* failures and returns the list it has; a command is "ok", exits          *)
(* "nonzero", or is "missing" (subprocess.run raises FileNotFoundError).   *)
(***************************************************************************)
CommandOutcomes == {"ok", "nonzero", "missing"}

\* an application record: its name and the keys its dict carries, which
\* differ from source to source
AppRecords(names, keys) == [i \in 1..Len(names) |-> [name |-> names[i], keys |-> keys]]

\* the Uninstall keys of the registry
_get_windows_applications(env) ==
    AppRecords(env.apps, {"name", "version", "publisher", "install_date"})
\* the Info.plist files under /Applications
_get_macos_applications(env) ==
    AppRecords(env.apps, {"name", "version", "identifier"})

\* dpkg -l; rpm -qa is in the except branch around the dpkg call
_get_linux_applications(env) ==
    CASE env.dpkg = "ok" -> AppRecords(env.apps, {"name", "version", "description"})
      [] env.dpkg = "nonzero" -> <<>>
      [] OTHER -> \* dpkg could not be run: the except branch tries rpm
            IF env.rpm = "ok" THEN AppRecords(env.apps, {"name", "version"}) ELSE <<>>

get_installed_applications(self, arguments, env) ==
    LET applications ==
            CASE self.os_type = "Windows" -> _get_windows_applications(env)
              [] self.os_type = "Darwin" -> _get_macos_applications(env)
              [] OTHER -> _get_linux_applications(env)
        doc == [applications |-> applications, total |-> Len(applications)]
    IN TryHandler(NoExc, JsonText(doc), ErrorText(NoExc))

(***************************************************************************)
(* get_battery_status                                                      *)
(***************************************************************************)
\* a whole percentage in the unit of the raw readings
Percent(n) == n * 300

POWER_TIME_UNLIMITED == 0 - 2
PowerHungryCpu == 5
PowerHungryTop == 5

NoBatteryStatus == "No battery detected (desktop system)"

\* the loop keeps the processes above 5 % CPU; its bare except skips a
\* process whose info raises or whose cpu_percent is None
RECURSIVE CollectPowerHungry(_, _)
CollectPowerHungry(procs, acc) ==
    IF procs = <<>> THEN acc
    ELSE LET p == Head(procs)
             pinfo == ProcInfo(p)
             skipped == ProcInfoRaises(p) # NoExc \/ TypeOf(pinfo.cpu_percent) = "none"
         IN IF ~skipped /\ ValOf(pinfo.cpu_percent) > Percent(PowerHungryCpu)
            THEN CollectPowerHungry(Tail(procs),
                     Append(acc, [name |-> p.name, pid |-> p.pid,
                                  cpu_percent |-> ValOf(pinfo.cpu_percent)]))
            ELSE CollectPowerHungry(Tail(procs), acc)

TimeRemaining(battery) ==
    IF battery.secsleft # POWER_TIME_UNLIMITED
    THEN [fmt |-> "hm",
          hours |-> battery.secsleft \div SecondsPerHour,
          minutes |-> (battery.secsleft % SecondsPerHour) \div 60,
          text |-> ""]
    ELSE [fmt |-> "text", hours |-> 0, minutes |-> 0,
          text |-> IF ~battery.power_plugged THEN "Calculating..." ELSE "Plugged in"]

\* the processes enumerated before the battery is looked at
get_battery_status_enumerates_first(arguments, env) ==
    LET battery == env.battery
        bodyExc == IF env.raises # NoExc THEN env.raises ELSE env.iter_raises
        doc == IF ~battery.present
               THEN [status |-> NoBatteryStatus]
               ELSE [percent |-> battery.percent, status |-> "Discharging"]
    IN TryHandler(bodyExc, JsonText(doc), ErrorText(bodyExc))

\* env.raises: psutil.sensors_battery fails; env.iter_raises:
\* psutil.process_iter fails, which matters only where the handler gets to it
get_battery_status(arguments, env) ==
    LET battery == env.battery
        power_hungry == SortBy(CollectPowerHungry(env.procs, <<>>), "cpu_percent", TRUE)
        bodyExc == IF env.raises # NoExc THEN env.raises
                   ELSE IF battery.present THEN env.iter_raises ELSE NoExc
        doc == IF ~battery.present
               THEN [status |-> NoBatteryStatus]
               ELSE [percent |-> battery.percent,
                     power_plugged |-> battery.power_plugged,
                     status |-> IF battery.power_plugged THEN "Charging" ELSE "Discharging",
                     time_remaining |-> TimeRemaining(battery),
                     power_hungry_processes |-> Slice(power_hungry, PowerHungryTop)]
    IN TryHandler(bodyExc, JsonText(doc), ErrorText(bodyExc))

(***************************************************************************)
(* get_system_logs.  The log sources hold env.avail entries, numbered      *)
(* oldest first; a log entry is kept as its number.                        *)
(***************************************************************************)
Entries(n) == [i \in 1..n |-> i]

\* seq[start:] for an integer start
SliceFrom(seq, start) ==
    LET n == Len(seq)
        from == IF start < 0 THEN (IF n + start < 0 THEN 0 ELSE n + start)
                ELSE (IF start > n THEN n ELSE start)
    IN SubSeq(seq, from + 1, n)

IsIntLike(v) == TypeOf(v) \in {"int", "bool"}
AsInt(v) == IF TypeOf(v) = "bool" THEN (IF ValOf(v) THEN 1 ELSE 0) ELSE ValOf(v)

\* a tool asked for the newest `limit` entries (journalctl -n, Get-EventLog
\* -Newest) refuses a count that is no natural number
NewestAccepts(limit) == IsIntLike(limit) /\ AsInt(limit) >= 0

PyWinError == Exc("Exception", <<"OpenEventLog", "failed">>)

\* [exc, val]: only ImportError is caught around the event-log read
_get_windows_logs(log_type, limit, env) ==
    CASE env.winlog = "ok" ->
            IF SliceRaises(limit) # NoExc THEN [exc |-> SliceRaises(limit), val |-> <<>>]
            ELSE [exc |-> NoExc, val |-> SlicePy(Entries(env.avail), limit)]
      [] env.winlog = "open_error" -> [exc |-> PyWinError, val |-> <<>>]
      [] OTHER -> \* ImportError: the PowerShell fallback, inside a bare except
            IF env.command = "ok" /\ NewestAccepts(limit)
            THEN [exc |-> NoExc, val |-> Slice(Entries(env.avail), AsInt(limit))]
            ELSE [exc |-> NoExc, val |-> <<>>]

\* one try with a bare except around everything
_get_macos_logs(log_type, limit, env) ==
    IF env.command = "ok" /\ SliceRaises(limit) = NoExc
    THEN [exc |-> NoExc, val |-> SlicePy(Entries(env.avail), limit)]
    ELSE [exc |-> NoExc, val |-> <<>>]

\* journalctl; the /var/log file is read in the else branch of
\* `if result.returncode == 0`; one try with a bare except around both
_get_linux_logs(log_type, limit, env) ==
    LET journal == IF env.command = "ok" /\ ~NewestAccepts(limit) THEN "nonzero" ELSE env.command
    IN CASE journal = "ok" ->
                [exc |-> NoExc, val |-> Slice(Entries(env.avail), AsInt(limit))]
         [] journal = "nonzero" ->
                IF env.file_exists /\ IsIntLike(limit)
                THEN [exc |-> NoExc, val |-> SliceFrom(Entries(env.avail), 0 - AsInt(limit))]
                ELSE [exc |-> NoExc, val |-> <<>>]
         [] OTHER -> [exc |-> NoExc, val |-> <<>>]

get_system_logs(self, arguments, env) ==
    LET log_type == Get(arguments, "log_type", PyStr("system"))
        limit == Get(arguments, "limit", PyInt(100))
        probe == CASE self.os_type = "Windows" -> _get_windows_logs(log_type, limit, env)
                   [] self.os_type = "Darwin" -> _get_macos_logs(log_type, limit, env)
                   [] OTHER -> _get_linux_logs(log_type, limit, env)
        doc == [logs |-> probe.val, count |-> Len(probe.val)]
    IN TryHandler(probe.exc, JsonText(doc), ErrorText(probe.exc))

(***************************************************************************)
(* diagnose_performance.  CPU and memory samples are whole percentages;    *)
(* the I/O counters are in MB.                                             *)
(***************************************************************************)
HighCpuAverage == 80
HighMemoryAverage == 85
HighDiskRate == 100
TopCpuThreshold == 10
TopMemThreshold == 5
TopConsumers == 5

RECURSIVE SumSeq(_)
SumSeq(s) == IF s = <<>> THEN 0 ELSE Head(s) + SumSeq(Tail(s))
RECURSIVE MaxSeq(_)
MaxSeq(s) == IF Len(s) = 1 THEN s[1]
             ELSE IF Head(s) >= MaxSeq(Tail(s)) THEN Head(s) ELSE MaxSeq(Tail(s))

\* round(a / b, 2) in hundredths, for a >= 0 and b > 0
RoundedQuotient(a, b) == (200 * a + b) \div (2 * b)

\* range(duration)
RangeRaises(duration) == IF IsIntLike(duration) THEN NoExc ELSE TypeErrorRange
RangeLen(duration) == IF AsInt(duration) < 0 THEN 0 ELSE AsInt(duration)

\* the loop over the processes, with a bare except around each process
RECURSIVE CollectTopInclusive(_, _, _, _)
\* the thresholds of the top-consumer lists taken as inclusive
CollectTopInclusive(procs, field, threshold, acc) ==
    IF procs = <<>> THEN acc
    ELSE LET p == Head(procs)
             pinfo == ProcInfo(p)
             skipped == ProcInfoRaises(p) # NoExc \/ TypeOf(pinfo[field]) = "none"
         IN IF ~skipped /\ ValOf(pinfo[field]) >= Percent(threshold)
            THEN CollectTopInclusive(Tail(procs), field, threshold,
                     Append(acc, [name |-> p.name, pid |-> p.pid, value |-> ValOf(pinfo[field])]))
            ELSE CollectTopInclusive(Tail(procs), field, threshold, acc)

RECURSIVE CollectTop(_, _, _, _)
CollectTop(procs, field, threshold, acc) ==
    IF procs = <<>> THEN acc
    ELSE LET p == Head(procs)
             pinfo == ProcInfo(p)
             skipped == ProcInfoRaises(p) # NoExc \/ TypeOf(pinfo[field]) = "none"
         IN IF ~skipped /\ ValOf(pinfo[field]) > Percent(threshold)
            THEN CollectTop(Tail(procs), field, threshold,
                     Append(acc, [name |-> p.name, pid |-> p.pid, value |-> ValOf(pinfo[field])]))
            ELSE CollectTop(Tail(procs), field, threshold, acc)

\* the thresholds taken as inclusive
BottlenecksInclusive(cpu_samples, mem_samples, disk_read, disk_write, duration) ==
    (IF SumSeq(cpu_samples) >= HighCpuAverage * Len(cpu_samples)
        THEN <<"HIGH_CPU_USAGE">> ELSE <<>>)
    \o (IF SumSeq(mem_samples) >= HighMemoryAverage * Len(mem_samples)
        THEN <<"HIGH_MEMORY_USAGE">> ELSE <<>>)
    \o (IF disk_read >= HighDiskRate * duration \/ disk_write >= HighDiskRate * duration
        THEN <<"HIGH_DISK_IO">> ELSE <<>>)

\* a flag for each disk counter that is over the threshold
BottlenecksPerCounter(cpu_samples, mem_samples, disk_read, disk_write, duration) ==
    (IF SumSeq(cpu_samples) > HighCpuAverage * Len(cpu_samples)
        THEN <<"HIGH_CPU_USAGE">> ELSE <<>>)
    \o (IF SumSeq(mem_samples) > HighMemoryAverage * Len(mem_samples)
        THEN <<"HIGH_MEMORY_USAGE">> ELSE <<>>)
    \o (IF disk_read > HighDiskRate * duration THEN <<"HIGH_DISK_IO">> ELSE <<>>)
    \o (IF disk_write > HighDiskRate * duration THEN <<"HIGH_DISK_IO">> ELSE <<>>)

Bottlenecks(cpu_samples, mem_samples, disk_read, disk_write, duration) ==
    (IF SumSeq(cpu_samples) > HighCpuAverage * Len(cpu_samples)
        THEN <<"HIGH_CPU_USAGE">> ELSE <<>>)
    \o (IF SumSeq(mem_samples) > HighMemoryAverage * Len(mem_samples)
        THEN <<"HIGH_MEMORY_USAGE">> ELSE <<>>)
    \o (IF disk_read > HighDiskRate * duration \/ disk_write > HighDiskRate * duration
        THEN <<"HIGH_DISK_IO">> ELSE <<>>)

RecommendationFor(flag) ==
    CASE flag = "HIGH_CPU_USAGE" -> "CPU is heavily utilized."
      [] flag = "HIGH_MEMORY_USAGE" -> "Memory usage is high."
      [] OTHER -> "High disk I/O detected."

\* the initial snapshot taken into the series as well
cpu_samples_with_before(duration, env) ==
    [i \in 1..(RangeLen(duration) + 1) |-> env.cpu[((i - 1) % Len(env.cpu)) + 1]]

\* the series the loop `for _ in range(duration)` appends to: the host's
\* readings, one per pass
cpu_samples_of(duration, env) ==
    [i \in 1..RangeLen(duration) |-> env.cpu[((i - 1) % Len(env.cpu)) + 1]]
mem_samples_of(duration, env) ==
    [i \in 1..RangeLen(duration) |-> env.mem[((i - 1) % Len(env.mem)) + 1]]

\* an empty series reported as all-zero metrics
diagnose_performance_empty_series(arguments, env) ==
    LET duration == Get(arguments, "duration", PyInt(5))
    IN IF env.raises = NoExc /\ RangeRaises(duration) = NoExc /\ RangeLen(duration) = 0
       THEN TryHandler(NoExc, JsonText([duration_seconds |-> 0, bottlenecks |-> <<>>]),
                       ErrorText(NoExc))
       ELSE TryHandler(TypeErrorRange, JsonText(<<>>), ErrorText(TypeErrorRange))

diagnose_performance(arguments, env) ==
    LET duration == Get(arguments, "duration", PyInt(5))
        n == RangeLen(duration)
        cpu_samples == cpu_samples_of(duration, env)
        mem_samples == mem_samples_of(duration, env)
        bodyExc == IF env.raises # NoExc THEN env.raises
                   ELSE IF RangeRaises(duration) # NoExc THEN RangeRaises(duration)
                   ELSE IF n = 0 THEN ZeroDivisionError
                   ELSE NoExc
        flags == Bottlenecks(cpu_samples, mem_samples, env.disk_read, env.disk_write, n)
        doc == [duration_seconds |-> n,
                metrics |->
                    [cpu |-> [average_percent |-> RoundedQuotient(SumSeq(cpu_samples), n),
                              max_percent |-> 100 * MaxSeq(cpu_samples)],
                     memory |-> [average_percent |-> RoundedQuotient(SumSeq(mem_samples), n),
                                 max_percent |-> 100 * MaxSeq(mem_samples)],
                     disk_io |-> [read_rate_mb_s |-> RoundedQuotient(env.disk_read, n),
                                  write_rate_mb_s |-> RoundedQuotient(env.disk_write, n)],
                     network_io |-> [receive_rate_mb_s |-> RoundedQuotient(env.net_recv, n),
                                     send_rate_mb_s |-> RoundedQuotient(env.net_sent, n)]],
                bottlenecks |-> flags,
                recommendations |-> [i \in 1..Len(flags) |-> RecommendationFor(flags[i])],
                top_cpu_processes |->
                    Slice(SortBy(CollectTop(env.procs, "cpu_percent", TopCpuThreshold, <<>>),
                                 "value", TRUE), TopConsumers),
                top_memory_processes |->
                    Slice(SortBy(CollectTop(env.procs, "memory_percent", TopMemThreshold, <<>>),
                                 "value", TRUE), TopConsumers)]
    IN TryHandler(bodyExc, JsonText(doc), ErrorText(bodyExc))

(***************************************************************************)
(* get_hardware_recommendations.  RAM is in whole GB, memory usage in      *)
(* whole percent.  The handler calls self._get_motherboard_info(), a       *)
(* method the class does not define.                                       *)
(***************************************************************************)
GamingCores == 6
GamingRam == 16
CreationCores == 8
CreationRam == 32
DevelopmentRam == 16
ProductivityRam == 8
MemoryPressure == 80

\* self._get_motherboard_info(): the attribute lookup fails
_get_motherboard_info_raises == AttributeErrorHelper

CompatibilityNotes ==
    << "Check motherboard compatibility before purchasing RAM (DDR3/DDR4/DDR5)",
       "Verify power supply wattage before GPU upgrade",
       "Ensure motherboard has M.2 slot for NVMe SSDs",
       "Consider case dimensions for GPU upgrades" >>

Entry(component, reason) == [component |-> component, reason |-> reason]

\* the thresholds taken as inclusive
UseCaseRulesInclusive(use_case, cpu_count, total_ram) ==
    CASE use_case = PyStr("gaming") ->
            (IF cpu_count <= GamingCores THEN <<Entry("CPU", "gaming")>> ELSE <<>>)
            \o (IF total_ram <= GamingRam THEN <<Entry("RAM", "gaming")>> ELSE <<>>)
            \o <<Entry("GPU", "gaming")>>
      [] use_case = PyStr("content_creation") ->
            (IF cpu_count <= CreationCores THEN <<Entry("CPU", "content_creation")>> ELSE <<>>)
            \o (IF total_ram <= CreationRam THEN <<Entry("RAM", "content_creation")>> ELSE <<>>)
            \o <<Entry("Storage", "content_creation")>>
      [] use_case = PyStr("development") ->
            (IF total_ram <= DevelopmentRam THEN <<Entry("RAM", "development")>> ELSE <<>>)
            \o <<Entry("Storage", "development")>>
      [] use_case = PyStr("productivity") ->
            (IF total_ram <= ProductivityRam THEN <<Entry("RAM", "productivity")>> ELSE <<>>)
            \o <<Entry("Storage", "productivity")>>
      [] OTHER -> <<>>

UseCaseRules(use_case, cpu_count, total_ram) ==
    CASE use_case = PyStr("gaming") ->
            (IF cpu_count < GamingCores THEN <<Entry("CPU", "gaming")>> ELSE <<>>)
            \o (IF total_ram < GamingRam THEN <<Entry("RAM", "gaming")>> ELSE <<>>)
            \o <<Entry("GPU", "gaming")>>
      [] use_case = PyStr("content_creation") ->
            (IF cpu_count < CreationCores THEN <<Entry("CPU", "content_creation")>> ELSE <<>>)
            \o (IF total_ram < CreationRam THEN <<Entry("RAM", "content_creation")>> ELSE <<>>)
            \o <<Entry("Storage", "content_creation")>>
      [] use_case = PyStr("development") ->
            (IF total_ram < DevelopmentRam THEN <<Entry("RAM", "development")>> ELSE <<>>)
            \o <<Entry("Storage", "development")>>
      [] use_case = PyStr("productivity") ->
            (IF total_ram < ProductivityRam THEN <<Entry("RAM", "productivity")>> ELSE <<>>)
            \o <<Entry("Storage", "productivity")>>
      [] OTHER -> <<>>

GeneralRules(self, total_ram, vm_percent, env) ==
    LET has_ssd == self.os_type = "Windows" /\ env.ssd
    IN (IF vm_percent > MemoryPressure
        THEN <<Entry("RAM", IF total_ram < 16 THEN "Add 16GB RAM" ELSE "Add 32GB RAM")>>
        ELSE <<>>)
       \o (IF ~has_ssd THEN <<Entry("Storage", "No SSD detected")>> ELSE <<>>)

get_hardware_recommendations(self, arguments, env) ==
    LET use_case == Get(arguments, "use_case", PyStr("general"))
        bodyExc == IF env.raises # NoExc THEN env.raises
                   ELSE _get_motherboard_info_raises
        doc == [current_specs |-> [cpu_cores |-> env.cpu_count, ram_gb |-> env.total_ram],
                upgrade_recommendations |->
                    UseCaseRules(use_case, env.cpu_count, env.total_ram)
                    \o GeneralRules(self, env.total_ram, env.vm_percent, env),
                compatibility_notes |-> CompatibilityNotes]
    IN TryHandler(bodyExc, JsonText(doc), ErrorText(bodyExc))

(***************************************************************************)
(* get_motherboard_details and get_computer_model.  The platform probes    *)
(* catch their own failures and return the sections they filled; a section *)
(* is a sequence of <<key, value>> pairs in insertion order.               *)
(***************************************************************************)
Heading(title) == [kind |-> "heading", key |-> title, value |-> ""]
Field(pair) == [kind |-> "field", key |-> pair[1], value |-> pair[2]]
SlotLine(slot) ==
    [kind |-> "slot", key |-> slot.description,
     value |-> IF slot.size_gb > 0
               THEN (IF slot.clock_mhz > 0 THEN "size @ clock" ELSE "size")
               ELSE ""]

RECURSIVE RenderFields(_, _)
RenderFields(pairs, hidden) ==
    IF pairs = <<>> THEN <<>>
    ELSE (IF Head(pairs)[2] \in hidden THEN <<>> ELSE <<Field(Head(pairs))>>)
         \o RenderFields(Tail(pairs), hidden)

\* `if info.get(section):` then the heading and the fields that are shown
RenderSection(title, pairs, hidden) ==
    IF pairs = <<>> THEN <<>> ELSE <<Heading(title)>> \o RenderFields(pairs, hidden)

RenderMemory(pairs, slots) ==
    IF pairs = <<>> /\ slots = <<>> THEN <<>>
    ELSE <<Heading("Memory Information")>>
         \o RenderFields(pairs, {"", "Unknown"})
         \o (IF slots = <<>> THEN <<>>
             ELSE <<[kind |-> "slots", key |-> "Memory Slots", value |-> ""]>>
                  \o [i \in 1..Len(slots) |-> SlotLine(slots[i])])

SystemInfoPairs(self, env) ==
    << <<"platform", self.os_type>>, <<"architecture", env.architecture>>,
       <<"machine", env.machine>>, <<"hostname", env.hostname>> >>

ErrorTextMotherboard(e) ==
    PlainText(<<"Error", "retrieving", "motherboard", "details:">> \o e.msg)
ErrorTextComputerModel(e) ==
    PlainText(<<"Error", "retrieving", "computer", "model", "information:">> \o e.msg)

\* What the probes work from.  env.info is what the hardware reports when
\* asked through the first source of the platform (WMI, system_profiler,
\* sudo -n dmidecode); env.primary says how that source fares: "ok", or it
\* fails ("nonzero": the command exits non-zero, WMI raises) or cannot be
\* started at all ("missing": subprocess.run raises FileNotFoundError, WMI
\* raises).  env.wmic is the outcome of the wmic commands and env.sysfs the
\* pairs readable under /sys/devices/virtual/dmi/id (<<>>: none).
EmptyMotherboardInfo ==
    [basic_info |-> <<>>, bios_info |-> <<>>, memory_info |-> <<>>, slots |-> <<>>,
     capabilities |-> <<>>]
EmptyComputerModelInfo == [basic_info |-> <<>>, system_details |-> <<>>]

\* `parts[i].strip() or 'Unknown'` over a section
BlankToUnknown(pairs) ==
    [i \in 1..Len(pairs) |-> <<pairs[i][1], IF pairs[i][2] = "" THEN "Unknown" ELSE pairs[i][2]>>]

\* the first pair is the manufacturer, which the macOS probes set themselves
AppleBasics(pairs) ==
    IF pairs = <<>> THEN <<>> ELSE << <<"manufacturer", "Apple Inc.">> >> \o Tail(pairs)

RECURSIVE InstalledModules(_, _)
\* the modules with a capacity, as dicts that carry the speed under
\* "speed_mhz": slot.get('clock_mhz', 0) finds no clock in them
InstalledModules(slots, description) ==
    IF slots = <<>> THEN <<>>
    ELSE (IF Head(slots).size_gb > 0
          THEN <<[description |-> IF description = "" THEN Head(slots).description
                                  ELSE description,
                  size_gb |-> Head(slots).size_gb, clock_mhz |-> 0]>>
          ELSE <<>>)
         \o InstalledModules(Tail(slots), description)

_get_windows_motherboard_via_subprocess(include_bios, include_slots, env) ==
    IF env.wmic = "ok"
    THEN [basic_info |-> BlankToUnknown(env.info.basic_info),
          bios_info |-> IF Truthy(include_bios) THEN BlankToUnknown(env.info.bios_info) ELSE <<>>,
          memory_info |-> env.info.memory_info,
          slots |-> InstalledModules(env.info.slots, "Memory Module"),
          capabilities |-> <<>>]
    ELSE EmptyMotherboardInfo

_get_windows_motherboard_details(include_bios, include_slots, env) ==
    IF env.primary = "ok"
    THEN [basic_info |-> env.info.basic_info,
          bios_info |-> IF Truthy(include_bios) THEN env.info.bios_info ELSE <<>>,
          memory_info |-> env.info.memory_info,
          slots |-> InstalledModules(env.info.slots, ""),
          capabilities |-> env.info.capabilities]
    ELSE _get_windows_motherboard_via_subprocess(include_bios, include_slots, env)

_get_macos_motherboard_details(include_bios, include_slots, env) ==
    IF env.primary = "ok"
    THEN [basic_info |-> AppleBasics(env.info.basic_info),
          bios_info |-> IF Truthy(include_bios) /\ env.info.basic_info # <<>>
                        THEN env.info.bios_info ELSE <<>>,
          memory_info |-> IF env.info.basic_info # <<>> THEN env.info.memory_info ELSE <<>>,
          slots |-> IF Truthy(include_slots)
                    THEN InstalledModules(env.info.slots, "") ELSE <<>>,
          capabilities |-> env.info.capabilities]
    ELSE EmptyMotherboardInfo

\* the bios_* files of /sys, as the pairs they add to bios_info
SysfsBios(env) == IF env.sysfs = <<>> THEN <<>> ELSE << <<"vendor", "AMI">> >>

\* dict update: a key that is there keeps its place and takes the new value
Updated(pairs, updates) ==
    LET keys == {pairs[i][1] : i \in 1..Len(pairs)}
        value(k, old) == IF \E j \in 1..Len(updates) : updates[j][1] = k
                         THEN (CHOOSE v \in {updates[j][2] : j \in {x \in 1..Len(updates) :
                                                                     updates[x][1] = k}} : TRUE)
                         ELSE old
    IN [i \in 1..Len(pairs) |-> <<pairs[i][1], value(pairs[i][1], pairs[i][2])>>]
       \o SelectSeq(updates, LAMBDA u : u[1] \notin keys)

\* one try around everything: sudo that cannot be started ends the probe
\* with what it has, which is nothing
_get_linux_motherboard_details(include_bios, include_slots, env) ==
    IF env.primary = "missing" THEN EmptyMotherboardInfo
    ELSE LET dmi_basic == IF env.primary = "ok" THEN env.info.basic_info ELSE <<>>
             dmi_bios == IF env.primary = "ok" /\ Truthy(include_bios)
                         THEN env.info.bios_info ELSE <<>>
             fallback == dmi_basic = <<>>
         IN [basic_info |-> IF fallback THEN env.sysfs ELSE dmi_basic,
             bios_info |-> IF fallback THEN Updated(dmi_bios, SysfsBios(env)) ELSE dmi_bios,
             memory_info |-> env.info.memory_info,
             slots |-> env.info.slots,
             capabilities |-> <<>>]

\* a dispatch that knows Linux by name and takes the macOS probe otherwise
MotherboardProbeByName(self, include_bios, include_slots, env) ==
    CASE self.os_type = "Windows" ->
            [variant |-> "windows",
             info |-> _get_windows_motherboard_details(include_bios, include_slots, env)]
      [] self.os_type = "Linux" ->
            [variant |-> "linux",
             info |-> _get_linux_motherboard_details(include_bios, include_slots, env)]
      [] OTHER ->
            [variant |-> "macos",
             info |-> _get_macos_motherboard_details(include_bios, include_slots, env)]

\* the probe of the platform
MotherboardProbe(self, include_bios, include_slots, env) ==
    CASE self.os_type = "Windows" ->
            [variant |-> "windows",
             info |-> _get_windows_motherboard_details(include_bios, include_slots, env)]
      [] self.os_type = "Darwin" ->
            [variant |-> "macos",
             info |-> _get_macos_motherboard_details(include_bios, include_slots, env)]
      [] OTHER ->
            [variant |-> "linux",
             info |-> _get_linux_motherboard_details(include_bios, include_slots, env)]

RenderMotherboard(self, include_bios, info, env) ==
    <<Heading("Motherboard Details")>>
    \o RenderSection("Basic Information", info.basic_info, {"", "Unknown"})
    \o (IF Truthy(include_bios)
        THEN RenderSection("BIOS/UEFI Information", info.bios_info, {"", "Unknown"})
        ELSE <<>>)
    \o RenderMemory(info.memory_info, info.slots)
    \o RenderSection("System Information", SystemInfoPairs(self, env), {""})
    \o RenderSection("Capabilities and Features", info.capabilities, {"", "Unknown"})

get_motherboard_details(self, arguments, env) ==
    LET include_bios == Get(arguments, "include_bios", PyBool(TRUE))
        include_slots == Get(arguments, "include_slots", PyBool(TRUE))
        info == MotherboardProbe(self, include_bios, include_slots, env).info
        output == RenderMotherboard(self, include_bios, info, env)
    IN TryHandler(env.raises, MarkdownText(output), ErrorTextMotherboard(env.raises))

_get_windows_computer_model_via_wmic(include_details, env) ==
    IF env.wmic = "ok"
    THEN [basic_info |-> BlankToUnknown(env.info.basic_info),
          system_details |-> IF Truthy(include_details)
                             THEN BlankToUnknown(env.info.system_details) ELSE <<>>]
    ELSE EmptyComputerModelInfo

_get_windows_computer_model(include_details, env) ==
    IF env.primary = "ok"
    THEN [basic_info |-> env.info.basic_info,
          system_details |-> IF Truthy(include_details) THEN env.info.system_details ELSE <<>>]
    ELSE _get_windows_computer_model_via_wmic(include_details, env)

\* the XML of system_profiler, and its text form when the XML gave nothing
_get_macos_computer_model(include_details, env) ==
    CASE env.primary # "ok" -> EmptyComputerModelInfo
      [] env.info.basic_info = <<>> ->
            [basic_info |-> << <<"manufacturer", "Apple Inc.">> >>, system_details |-> <<>>]
      [] OTHER ->
            [basic_info |-> AppleBasics(env.info.basic_info),
             system_details |-> IF Truthy(include_details)
                                THEN env.info.system_details ELSE <<>>]

\* `if value and value != "Not Specified"` over the files of /sys
Specified(pairs) == SelectSeq(pairs, LAMBDA p : p[2] \notin {"", "Not Specified"})

_get_linux_computer_model(include_details, env) ==
    IF env.primary = "missing" THEN EmptyComputerModelInfo
    ELSE LET dmi_basic == IF env.primary = "ok" THEN env.info.basic_info ELSE <<>>
             dmi_details == IF env.primary = "ok" /\ Truthy(include_details)
                            THEN env.info.system_details ELSE <<>>
             fallback == dmi_basic = <<>>
             host == IF Truthy(include_details)
                     THEN << <<"hostname", env.hostname>> >> ELSE <<>>
         IN [basic_info |-> IF fallback THEN Specified(env.sysfs) ELSE dmi_basic,
             system_details |-> Updated(dmi_details, host)]

ComputerModelProbe(self, include_details, env) ==
    CASE self.os_type = "Windows" ->
            [variant |-> "windows", info |-> _get_windows_computer_model(include_details, env)]
      [] self.os_type = "Darwin" ->
            [variant |-> "macos", info |-> _get_macos_computer_model(include_details, env)]
      [] OTHER ->
            [variant |-> "linux", info |-> _get_linux_computer_model(include_details, env)]

RenderComputerModel(self, include_details, info, env) ==
    <<Heading("Computer Model Information")>>
    \o RenderSection("Basic Information", info.basic_info, {"", "Unknown", "Not Available"})
    \o (IF Truthy(include_details)
        THEN RenderSection("System Details", info.system_details,
                           {"", "Unknown", "Not Available"})
        ELSE <<>>)
    \o RenderSection("Platform Information", SystemInfoPairs(self, env), {""})

get_computer_model(self, arguments, env) ==
    LET include_details == Get(arguments, "include_details", PyBool(TRUE))
        info == ComputerModelProbe(self, include_details, env).info
        output == RenderComputerModel(self, include_details, info, env)
    IN TryHandler(env.raises, MarkdownText(output), ErrorTextComputerModel(env.raises))

(***************************************************************************)
(* The tool registry (handle_list_tools) and the dispatcher                *)
(* (handle_call_tool).                                                     *)
(***************************************************************************)
NoArgs == [k \in {} |-> PyNone]

DescriptorCopied(name, defaults) ==
    [name |-> IF name = "get_computer_model" THEN "get_motherboard_details" ELSE name,
     defaults |-> defaults]

Descriptor(name, defaults) == [name |-> name, defaults |-> defaults]

\* a registry whose declared limit of get_processes is not the handler's
handle_list_toolsOtherLimit ==
    << Descriptor("get_system_info", NoArgs),
       Descriptor("get_cpu_metrics", [per_core |-> PyBool(FALSE), interval |-> PyInt(1)]),
       Descriptor("get_memory_metrics", [include_processes |-> PyBool(FALSE)]),
       Descriptor("get_storage_metrics", [include_io_stats |-> PyBool(FALSE)]),
       Descriptor("get_network_metrics", [include_connections |-> PyBool(FALSE)]),
       Descriptor("get_processes", [sort_by |-> PyStr("cpu"), limit |-> PyInt(1)]),
       Descriptor("get_installed_applications", [category |-> PyStr("all")]),
       Descriptor("get_battery_status", NoArgs),
       Descriptor("get_system_logs", [log_type |-> PyStr("system"), limit |-> PyInt(100)]),
       Descriptor("diagnose_performance", [duration |-> PyInt(5)]),
       Descriptor("get_hardware_recommendations", [use_case |-> PyStr("general")]),
       Descriptor("get_motherboard_details",
                  [include_bios |-> PyBool(TRUE), include_slots |-> PyBool(TRUE)]),
       Descriptor("get_computer_model", [include_details |-> PyBool(TRUE)]) >>

handle_list_tools ==
    << Descriptor("get_system_info", NoArgs),
       Descriptor("get_cpu_metrics", [per_core |-> PyBool(FALSE), interval |-> PyInt(1)]),
       Descriptor("get_memory_metrics", [include_processes |-> PyBool(FALSE)]),
       Descriptor("get_storage_metrics", [include_io_stats |-> PyBool(FALSE)]),
       Descriptor("get_network_metrics", [include_connections |-> PyBool(FALSE)]),
       Descriptor("get_processes", [sort_by |-> PyStr("cpu"), limit |-> PyInt(20)]),
       Descriptor("get_installed_applications", [category |-> PyStr("all")]),
       Descriptor("get_battery_status", NoArgs),
       Descriptor("get_system_logs", [log_type |-> PyStr("system"), limit |-> PyInt(100)]),
       Descriptor("diagnose_performance", [duration |-> PyInt(5)]),
       Descriptor("get_hardware_recommendations", [use_case |-> PyStr("general")]),
       Descriptor("get_motherboard_details",
                  [include_bios |-> PyBool(TRUE), include_slots |-> PyBool(TRUE)]),
       Descriptor("get_computer_model", [include_details |-> PyBool(TRUE)]) >>

UnknownToolError(name) == Exc("ValueError", <<"Unknown", "tool:", name>>)

Routed(handler, out) == [handler |-> handler, out |-> out]

UnknownToolAsText(name) ==
    Routed("none", Returned(<<TextContent(ErrorText(UnknownToolError(name)))>>))

\* the else branch: raise ValueError(f"Unknown tool: {name}")
UnknownTool(name) == Routed("none", Raised(UnknownToolError(name)))

\* the if / elif chain: the handler that runs, and what the call gives
handle_call_tool(self, name, arguments, env) ==
    CASE name = "get_system_info" ->
            Routed("get_system_info", get_system_info(self, arguments, env))
      [] name = "get_cpu_metrics" ->
            Routed("get_cpu_metrics", get_cpu_metrics(arguments, env))
      [] name = "get_memory_metrics" ->
            Routed("get_memory_metrics", get_memory_metrics(arguments, env))
      [] name = "get_storage_metrics" ->
            Routed("get_storage_metrics", get_storage_metrics(self, arguments, env))
      [] name = "get_network_metrics" ->
            Routed("get_network_metrics", get_network_metrics(arguments, env))
      [] name = "get_processes" ->
            Routed("get_processes", get_processes(arguments, env))
      [] name = "get_installed_applications" ->
            Routed("get_installed_applications", get_installed_applications(self, arguments, env))
      [] name = "get_battery_status" ->
            Routed("get_battery_status", get_battery_status(arguments, env))
      [] name = "get_system_logs" ->
            Routed("get_system_logs", get_system_logs(self, arguments, env))
      [] name = "diagnose_performance" ->
            Routed("diagnose_performance", diagnose_performance(arguments, env))
      [] name = "get_hardware_recommendations" ->
            Routed("get_hardware_recommendations", get_hardware_recommendations(self, arguments, env))
      [] name = "get_motherboard_details" ->
            Routed("get_motherboard_details", get_motherboard_details(self, arguments, env))
      [] name = "get_computer_model" ->
            Routed("get_computer_model", get_computer_model(self, arguments, env))
      [] OTHER -> UnknownTool(name)

(***************************************************************************)
(* The host: what the providers answer during one call.                    *)
(***************************************************************************)
NoEnv == [raises |-> NoExc]

\* the same host with a data source that throws
Failing(base) == {[base EXCEPT !.raises = e] : e \in ProviderFailures}

\* readings of ordinary processes, and of processes around the 5 % and
\* 10 % thresholds
Loads == (0..MaxRaw) \X {0, MaxRaw}
HotLoads == {Percent(5), Percent(5) + 1, Percent(10) + 1} \X {Percent(5), Percent(5) + 1}

FaultChoices(n) == {<<0, "none">>} \cup ((1..n) \X ProcFaults)

\* the tables of n processes with at most one misbehaving process, whose
\* readings nobody gets to see
ProcTables(loads, n) ==
    LET anyLoad == CHOOSE l \in loads : TRUE
    IN { [i \in 1..n |-> Proc(i, f[i][1], f[i][2], IF i = flt[1] THEN flt[2] ELSE "none")] :
            <<f, flt>> \in { x \in [1..n -> loads] \X FaultChoices(n) :
                              x[2][1] = 0 \/ x[1][x[2][1]] = anyLoad } }
ProcLists(loads, maxn) == UNION {ProcTables(loads, n) : n \in 0..maxn}

BoolValues == {PyBool(TRUE), PyBool(FALSE)}
BadValue == PyStr("bad")

\* the argument maps with key k absent or set to one of vs
Args1(k, vs) == {NoArgs} \cup {[j \in {k} |-> v] : v \in vs}
Args2(k1, vs1, k2, vs2) == {f @@ g : f \in Args1(k1, vs1), g \in Args1(k2, vs2)}

SystemInfoEnvs ==
    LET ok == {[raises |-> NoExc, hostname |-> "host-a", machine |-> "x86_64",
                physical_cores |-> c, logical_cores |-> PyInt(8), uptime_seconds |-> u] :
                    c \in {PyNone, PyInt(4)}, u \in {0, 90000, 172799}}
    IN ok \cup UNION {Failing(e) : e \in {x \in ok : x.uptime_seconds = 0}}

CpuEnvs ==
    LET ok == {[raises |-> NoExc, usage |-> u, freq |-> f] : u \in 0..MaxRaw, f \in BOOLEAN}
    IN ok \cup UNION {Failing(e) : e \in {x \in ok : x.usage = 0 /\ x.freq}}
CpuArgs == Args2("per_core", BoolValues,
                 "interval", {PyInt(0 - 1), PyInt(0), PyInt(1), BadValue})

MemoryEnvs(procLists) ==
    {[raises |-> NoExc, vm_percent |-> 50, swap_percent |-> 0, procs |-> p] : p \in procLists}
    \cup Failing([raises |-> NoExc, vm_percent |-> 50, swap_percent |-> 0, procs |-> <<>>])
MemoryArgs == Args1("include_processes", BoolValues)

PartitionFailures ==
    {NoExc, Exc("PermissionError", <<"Permission", "denied">>),
     Exc("OSError", <<"Device", "not", "ready">>)}
DeviceNames == <<"/dev/sda1", "/dev/sdb1", "/dev/sdc1", "/dev/sdd1">>
DeviceName(i) == DeviceNames[((i - 1) % Len(DeviceNames)) + 1]
\* the mounted partitions in enumeration order, each with the outcome of its
\* usage query and the medium the platform helper would report
Partitions ==
    UNION {{[i \in 1..n |-> [device |-> DeviceName(i), usage |-> f[i].usage, media |-> f[i].media]] :
              f \in [1..n -> [usage : PartitionFailures, media : {"SSD", "Unknown"}]]} :
            n \in 0..MaxParts}
StorageEnvs ==
    {[raises |-> NoExc, io_raises |-> io, parts |-> ps] :
        io \in {NoExc, Exc("Exception", <<"Test", "error">>)}, ps \in Partitions}
    \cup Failing([raises |-> NoExc, io_raises |-> NoExc, parts |-> <<>>])
StorageArgs == Args1("include_io_stats", BoolValues)

NetworkEnvs ==
    {[raises |-> NoExc, conn_raises |-> c, interfaces |-> 1, connections |-> n] :
        c \in {NoExc, Exc("AccessDenied", <<"psutil.AccessDenied">>)},
        n \in {0, MaxConnections, MaxConnections + 1}}
    \cup Failing([raises |-> NoExc, conn_raises |-> NoExc, interfaces |-> 1, connections |-> 0])
NetworkArgs == Args1("include_connections", BoolValues)

ProcessEnvs(procLists) ==
    {[raises |-> NoExc, procs |-> p] : p \in procLists}
    \cup Failing([raises |-> NoExc, procs |-> <<>>])
SortValues == {PyStr("cpu"), PyStr("memory"), PyStr("name"), PyStr("pid"), PyStr("other")}
LimitValues == {PyInt(n) : n \in (0 - 1)..MaxLimit}
ProcessArgs == Args2("sort_by", SortValues, "limit", LimitValues \cup {BadValue})

ApplicationEnvs ==
    {[raises |-> NoExc, apps |-> a, dpkg |-> d, rpm |-> r] :
        a \in {<<>>, <<"app-1", "app-2">>}, d \in CommandOutcomes, r \in CommandOutcomes}
ApplicationArgs == Args1("category", {PyStr("all"), PyStr("system")})

NoBattery == [present |-> FALSE, percent |-> 0, power_plugged |-> FALSE, secsleft |-> 0]
Batteries ==
    {NoBattery, [present |-> TRUE, percent |-> 50, power_plugged |-> TRUE,
                 secsleft |-> POWER_TIME_UNLIMITED]}
    \cup {[present |-> TRUE, percent |-> 50, power_plugged |-> FALSE, secsleft |-> t] :
            t \in {0 - 1, 0, 59, 3661}}
ProcessIterFailure == Exc("OSError", <<"Too", "many", "open", "files">>)
BatteryEnvs ==
    {[raises |-> NoExc, iter_raises |-> NoExc, battery |-> b, procs |-> p] :
        b \in Batteries, p \in ProcLists(HotLoads, MaxProcs - 1)}
    \cup {[raises |-> NoExc, iter_raises |-> ProcessIterFailure, battery |-> b, procs |-> <<>>] :
            b \in Batteries}
    \cup Failing([raises |-> NoExc, iter_raises |-> NoExc, battery |-> NoBattery, procs |-> <<>>])

LogEnvs ==
    {[raises |-> NoExc, winlog |-> w, command |-> c, file_exists |-> f, avail |-> n] :
        w \in {"ok", "import_error", "open_error"}, c \in CommandOutcomes,
        f \in BOOLEAN, n \in 0..MaxLogs}
LogArgs == Args2("log_type", {PyStr("system"), PyStr("application")},
                 "limit", LimitValues \cup {BadValue})

DiagnoseEnvs ==
    {[raises |-> NoExc, cpu |-> c, mem |-> m, disk_read |-> r, disk_write |-> w,
      net_recv |-> 0, net_sent |-> 100 * HighDiskRate, procs |-> p] :
        c \in [1..2 -> {HighCpuAverage, HighCpuAverage + 1}],
        m \in [1..2 -> {HighMemoryAverage, HighMemoryAverage + 1}],
        r \in {0, HighDiskRate + 1}, w \in {0, HighDiskRate + 1},
        p \in ProcLists(HotLoads, MaxProcs - 2)}
    \cup Failing([raises |-> NoExc, cpu |-> <<0>>, mem |-> <<0>>, disk_read |-> 0,
                  disk_write |-> 0, net_recv |-> 0, net_sent |-> 0, procs |-> <<>>])
DiagnoseArgs == Args1("duration", {PyInt(n) : n \in (0 - 1)..MaxDuration} \cup {BadValue})

RecommendationEnvs ==
    LET ok == {[raises |-> NoExc, cpu_count |-> c, total_ram |-> r, vm_percent |-> v, ssd |-> d] :
                c \in {4, 8}, r \in {8, 32}, v \in {50, 90}, d \in BOOLEAN}
    IN ok \cup UNION {Failing(e) : e \in {x \in ok : x.cpu_count = 4 /\ x.total_ram = 8
                                                    /\ x.vm_percent = 50 /\ x.ssd}}
RecommendationArgs ==
    Args1("use_case", {PyStr("gaming"), PyStr("productivity"), PyStr("development"),
                       PyStr("content_creation"), PyStr("general"), PyStr("other")})

BasicInfos ==
    { <<>>,
      << <<"manufacturer", "ACME">>, <<"product", "Unknown">> >>,
      << <<"manufacturer", "">>, <<"product", "Board-1">> >> }
Slots ==
    { <<>>,
      << [description |-> "DIMM", size_gb |-> 8, clock_mhz |-> 3200],
         [description |-> "Unknown", size_gb |-> 0, clock_mhz |-> 0] >> }
MotherboardInfos ==
    [basic_info : BasicInfos,
     bios_info : {<<>>, << <<"vendor", "AMI">>, <<"version", "Unknown">> >>},
     memory_info : {<<>>, << <<"total_memory_gb", "16">> >>},
     slots : Slots,
     capabilities : {<<>>, << <<"cpu_socket", "Unknown">> >>}]
SysfsEntries == {<<>>, << <<"manufacturer", "ACME">>, <<"product", "Board-1">> >>}
MotherboardEnvs ==
    LET ok == {[raises |-> NoExc, architecture |-> "64bit", machine |-> "x86_64",
                hostname |-> "host-a", info |-> i, primary |-> p, wmic |-> w,
                sysfs |-> f] :
                  i \in MotherboardInfos, p \in CommandOutcomes, w \in {"ok", "missing"},
                  f \in SysfsEntries}
    IN ok \cup UNION {Failing(e) : e \in {x \in ok : x.info.basic_info = <<>> /\ x.info.slots = <<>>
                                                    /\ x.info.bios_info = <<>>
                                                    /\ x.info.memory_info = <<>>
                                                    /\ x.info.capabilities = <<>>
                                                    /\ x.primary = "ok" /\ x.wmic = "ok"
                                                    /\ x.sysfs = <<>>}}
MotherboardArgs == Args2("include_bios", BoolValues, "include_slots", BoolValues)

ComputerModelInfos ==
    [basic_info : BasicInfos,
     system_details : {<<>>, << <<"uuid", "Not Available">>, <<"sku_number", "SKU-1">> >>}]
ComputerModelEnvs ==
    LET ok == {[raises |-> NoExc, architecture |-> "64bit", machine |-> "x86_64",
                hostname |-> "host-a", info |-> i, primary |-> p, wmic |-> w,
                sysfs |-> f] :
                  i \in ComputerModelInfos, p \in CommandOutcomes, w \in {"ok", "missing"},
                  f \in SysfsEntries}
    IN ok \cup UNION {Failing(e) : e \in {x \in ok : x.info.basic_info = <<>>
                                                    /\ x.info.system_details = <<>>
                                                    /\ x.primary = "ok" /\ x.wmic = "ok"
                                                    /\ x.sysfs = <<>>}}
ComputerModelArgs == Args1("include_details", BoolValues)

UnknownNames == {"", "unknown_tool", "GET_SYSTEM_INFO", "list_tools"}

(***************************************************************************)
(* The server.  os_type is set by __init__; the transport hands over one   *)
(* request at a time and sends back what the handler gives.                *)
(***************************************************************************)
VARIABLES os_type, call, handler, result, listed, loop, last_info, diag

vars == <<os_type, call, handler, result, listed, loop, last_info, diag>>

OsTypes == {"Windows", "Darwin", "Linux", "FreeBSD"}

NoCall == [kind |-> "none", name |-> "", arguments |-> NoArgs, env |-> NoEnv]
NoResult == [outcome |-> "none", content |-> <<>>, exc |-> NoExc]

\* the event loop: the phase of the tool call's coroutine, the blocking
\* samples it still has to sit through, and the steps another task has ready
LoopIdle == [phase |-> "idle", samples_left |-> 0, other_ready |-> 0, other_ran |-> 0]

self == [os_type |-> os_type]

\* diagnose_performance taken step by step: where the handler stands (pc),
\* the host's cumulative I/O counters in MB, the two snapshots, the series
\* collected so far, what the counters gained while the loop ran, and the
\* events in the order they happened
NoCounters == [disk_read |-> 0, disk_write |-> 0, net_recv |-> 0, net_sent |-> 0]
NoDiag ==
    [pc |-> "idle", counters |-> NoCounters, before |-> NoCounters, after |-> NoCounters,
     cpu |-> <<>>, mem |-> <<>>, gained |-> NoCounters, events |-> <<>>]

\* __init__, before the first request
\* history kept for comparing calls: what the last two successful
\* get_system_info calls found on the host and reported, newest last; it is
\* recorded only where a specification switches it on
NoHistory == [recording |-> FALSE, calls |-> <<>>]
Observe(name, out, env) ==
    IF /\ last_info.recording
       /\ name = "get_system_info"
       /\ out.outcome = "returned"
       /\ out.content[1].text.fmt = "json"
    THEN [last_info EXCEPT !.calls =
              (IF @ = <<>> THEN <<>> ELSE <<@[Len(@)]>>)
              \o <<[host |-> [hostname |-> env.hostname, machine |-> env.machine,
                              physical_cores |-> env.physical_cores,
                              logical_cores |-> env.logical_cores],
                    uptime_seconds |-> env.uptime_seconds,
                    info |-> out.content[1].text.doc.system_info]>>]
    ELSE last_info

Construct(systems) ==
    /\ os_type \in systems
    /\ call = NoCall
    /\ handler = "none"
    /\ result = NoResult
    /\ listed = <<>>
    /\ loop = LoopIdle
    /\ last_info = NoHistory
    /\ diag = NoDiag

Init == Construct(OsTypes)

Idle == call.kind = "none"

ListTools ==
    /\ Idle
    /\ call' = [kind |-> "list_tools", name |-> "", arguments |-> NoArgs, env |-> NoEnv]
    /\ listed' = handle_list_tools
    /\ UNCHANGED <<os_type, handler, result, loop, last_info, diag>>

\* a dispatcher whose handlers probe the platform again and store it
ServeReprobing(name, arguments, env) ==
    /\ call' = [kind |-> "call_tool", name |-> name, arguments |-> arguments, env |-> env]
    /\ handler' = handle_call_tool(self, name, arguments, env).handler
    /\ result' = handle_call_tool(self, name, arguments, env).out
    /\ os_type' \in OsTypes
    /\ UNCHANGED <<listed, loop, diag>>
    /\ last_info' = Observe(name, handle_call_tool(self, name, arguments, env).out, env)

\* one call_tool request, served to the end
Serve(name, arguments, env) ==
    /\ call' = [kind |-> "call_tool", name |-> name, arguments |-> arguments, env |-> env]
    /\ handler' = handle_call_tool(self, name, arguments, env).handler
    /\ result' = handle_call_tool(self, name, arguments, env).out
    /\ UNCHANGED <<os_type, listed, loop, diag>>
    /\ last_info' = Observe(name, handle_call_tool(self, name, arguments, env).out, env)

CallSystemInfo ==
    /\ Idle
    /\ \E env \in SystemInfoEnvs : Serve("get_system_info", NoArgs, env)
CallCpuMetrics ==
    /\ Idle
    /\ \E arguments \in CpuArgs, env \in CpuEnvs : Serve("get_cpu_metrics", arguments, env)
CallMemoryMetrics(procLists) ==
    /\ Idle
    /\ \E arguments \in MemoryArgs, env \in MemoryEnvs(procLists) :
           Serve("get_memory_metrics", arguments, env)
CallStorageMetrics ==
    /\ Idle
    /\ \E arguments \in StorageArgs, env \in StorageEnvs : Serve("get_storage_metrics", arguments, env)
CallNetworkMetrics ==
    /\ Idle
    /\ \E arguments \in NetworkArgs, env \in NetworkEnvs : Serve("get_network_metrics", arguments, env)
CallProcesses(procLists) ==
    /\ Idle
    /\ \E arguments \in ProcessArgs, env \in ProcessEnvs(procLists) :
           Serve("get_processes", arguments, env)
CallInstalledApplications ==
    /\ Idle
    /\ \E arguments \in ApplicationArgs, env \in ApplicationEnvs :
           Serve("get_installed_applications", arguments, env)
CallBatteryStatus ==
    /\ Idle
    /\ \E env \in BatteryEnvs : Serve("get_battery_status", NoArgs, env)
CallSystemLogs ==
    /\ Idle
    /\ \E arguments \in LogArgs, env \in LogEnvs : Serve("get_system_logs", arguments, env)
CallDiagnosePerformance ==
    /\ Idle
    /\ \E arguments \in DiagnoseArgs, env \in DiagnoseEnvs :
           Serve("diagnose_performance", arguments, env)
CallHardwareRecommendations ==
    /\ Idle
    /\ \E arguments \in RecommendationArgs, env \in RecommendationEnvs :
           Serve("get_hardware_recommendations", arguments, env)
CallMotherboardDetails ==
    /\ Idle
    /\ \E arguments \in MotherboardArgs, env \in MotherboardEnvs :
           Serve("get_motherboard_details", arguments, env)
CallComputerModel ==
    /\ Idle
    /\ \E arguments \in ComputerModelArgs, env \in ComputerModelEnvs :
           Serve("get_computer_model", arguments, env)
CallUnknown ==
    /\ Idle
    /\ \E name \in UnknownNames : Serve(name, NoArgs, NoEnv)

\* the response is sent and the server waits for the next request
Respond ==
    /\ ~Idle
    /\ call' = NoCall
    /\ handler' = "none"
    /\ result' = NoResult
    /\ listed' = <<>>
    /\ loop' = LoopIdle
    /\ UNCHANGED <<os_type, last_info, diag>>

Next ==
    \/ ListTools
    \/ CallSystemInfo
    \/ CallCpuMetrics
    \/ CallMemoryMetrics(ProcLists(Loads, MaxProcs - 1))
    \/ CallStorageMetrics
    \/ CallNetworkMetrics
    \/ CallProcesses(ProcLists(Loads, MaxProcs - 1))
    \/ CallInstalledApplications
    \/ CallBatteryStatus
    \/ CallSystemLogs
    \/ CallDiagnosePerformance
    \/ CallHardwareRecommendations
    \/ CallMotherboardDetails
    \/ CallComputerModel
    \/ CallUnknown
    \/ Respond

Spec == Init /\ [][Next]_vars

\* the rule table of get_hardware_recommendations (its lines from "Use case
\* specific recommendations" to the SSD check) applied to hosts around every
\* threshold
RuleEnvs ==
    {[raises |-> NoExc, cpu_count |-> c, total_ram |-> r, vm_percent |-> v, ssd |-> d] :
        c \in {GamingCores - 1, GamingCores, CreationCores - 1, CreationCores},
        r \in {ProductivityRam - 1, ProductivityRam, GamingRam - 1, GamingRam,
               CreationRam - 1, CreationRam},
        v \in {MemoryPressure, MemoryPressure + 1}, d \in BOOLEAN}

EvaluateRules ==
    /\ Idle
    /\ \E arguments \in RecommendationArgs, env \in RuleEnvs :
           /\ call' = [kind |-> "rules", name |-> "get_hardware_recommendations",
                       arguments |-> arguments, env |-> env]
           /\ handler' = "get_hardware_recommendations"
           /\ result' = Returned(<<TextContent(JsonText(
                  [upgrade_recommendations |->
                       UseCaseRules(Get(arguments, "use_case", PyStr("general")),
                                    env.cpu_count, env.total_ram)
                       \o GeneralRules(self, env.total_ram, env.vm_percent, env)]))>>)
    /\ UNCHANGED <<os_type, listed, loop, last_info, diag>>

NextRules ==
    \/ EvaluateRules
    \/ Respond

SpecRules == Init /\ [][NextRules]_vars

\* get_system_info between calls of other tools, with the history on
InitHistory ==
    /\ os_type \in OsTypes
    /\ call = NoCall
    /\ handler = "none"
    /\ result = NoResult
    /\ listed = <<>>
    /\ loop = LoopIdle
    /\ last_info = [recording |-> TRUE, calls |-> <<>>]
    /\ diag = NoDiag

NextHistory ==
    \/ CallSystemInfo
    \/ ListTools
    \/ CallCpuMetrics
    \/ CallHardwareRecommendations
    \/ CallUnknown
    \/ Respond

SpecHistory == InitHistory /\ [][NextHistory]_vars

\* the two process listings alone, over fuller process tables
NextProcesses ==
    \/ CallProcesses(ProcLists(Loads, MaxProcs))
    \/ CallMemoryMetrics(ProcLists(Loads, MaxProcs))
    \/ Respond

SpecProcesses == Construct({"Linux"}) /\ [][NextProcesses]_vars

\* diagnose_performance over process tables that are longer than its top
\* lists: a process is at a threshold, just over the CPU one, or well over both
TopLoads ==
    {<<Percent(TopCpuThreshold), Percent(TopMemThreshold) + 1>>,
     <<Percent(TopCpuThreshold) + 1, Percent(TopMemThreshold)>>,
     <<Percent(2 * TopCpuThreshold), Percent(TopMemThreshold) + 2>>}
\* short tables in full, and tables two longer than a top list, in which
\* the process in the middle may be one that cannot be read
TopTables ==
    ProcLists(TopLoads, 2)
    \cup { [i \in 1..(TopConsumers + 2) |->
               Proc(i, f[i][1], f[i][2], IF i = TopConsumers - 1 THEN flt ELSE "none")] :
             f \in [1..(TopConsumers + 2) -> TopLoads], flt \in {"none"} \cup ProcFaults }
TopEnvs ==
    {[raises |-> NoExc, cpu |-> <<0>>, mem |-> <<0>>, disk_read |-> 0, disk_write |-> 0,
      net_recv |-> 0, net_sent |-> 0, procs |-> p] : p \in TopTables}

CallDiagnoseTop ==
    /\ Idle
    /\ \E env \in TopEnvs :
           Serve("diagnose_performance", [k \in {"duration"} |-> PyInt(1)], env)

NextTop ==
    \/ CallDiagnoseTop
    \/ Respond

SpecTop == Construct({"Linux"}) /\ [][NextTop]_vars

(***************************************************************************)
(* The two sampling handlers on the asyncio event loop.  The loop runs one *)
(* coroutine at a time and switches only where the running one awaits      *)
(* something that suspends.  get_cpu_metrics and diagnose_performance call *)
(* psutil.cpu_percent(interval=...) directly: the wait is a time.sleep     *)
(* inside the coroutine, with no await between its first and last line.    *)
(***************************************************************************)
\* the blocking psutil.cpu_percent calls the handler sits through; a provider
\* that fails does so on the handler's first call of it, before any wait
BlockingSamples(name, arguments, env) ==
    IF env.raises # NoExc THEN 0
    ELSE IF name = "get_cpu_metrics"
    THEN LET interval == Get(arguments, "interval", PyInt(1))
         IN IF CpuPercentRaises(interval) = NoExc /\ CpuPercentSleeps(interval) THEN 1 ELSE 0
    ELSE LET duration == Get(arguments, "duration", PyInt(5))
         IN IF RangeRaises(duration) # NoExc THEN 1 ELSE 1 + RangeLen(duration)

\* the request is read and its task is scheduled
Submit(name, arguments, env) ==
    /\ Idle
    /\ loop.phase = "idle"
    /\ call' = [kind |-> "call_tool", name |-> name, arguments |-> arguments, env |-> env]
    /\ loop' = [loop EXCEPT !.phase = "pending"]
    /\ UNCHANGED <<os_type, handler, result, listed, last_info, diag>>

SubmitCpuMetrics ==
    /\ Idle
    /\ \E arguments \in CpuArgs, env \in CpuEnvs : Submit("get_cpu_metrics", arguments, env)
SubmitDiagnosePerformance ==
    /\ Idle
    /\ \E arguments \in DiagnoseArgs, env \in {e \in DiagnoseEnvs : e.procs = <<>>} :
           Submit("diagnose_performance", arguments, env)

\* another task (a second request, a notification) becomes ready to run
OtherReady ==
    /\ loop.other_ready + loop.other_ran < MaxOther
    /\ loop' = [loop EXCEPT !.other_ready = @ + 1]
    /\ UNCHANGED <<os_type, call, handler, result, listed, last_info, diag>>

\* the loop picks the tool call: the handler runs up to its first sample
StartHandler ==
    /\ loop.phase = "pending"
    /\ loop' = [loop EXCEPT
                  !.samples_left = BlockingSamples(call.name, call.arguments, call.env),
                  !.phase = IF BlockingSamples(call.name, call.arguments, call.env) > 0
                            THEN "sampling" ELSE "finishing"]
    /\ UNCHANGED <<os_type, call, handler, result, listed, last_info, diag>>

\* one psutil.cpu_percent(interval) returns after its sleep
SampleTaken ==
    /\ loop.phase = "sampling"
    /\ loop' = [loop EXCEPT !.samples_left = @ - 1,
                            !.phase = IF loop.samples_left = 1 THEN "finishing" ELSE "sampling"]
    /\ UNCHANGED <<os_type, call, handler, result, listed, last_info, diag>>

\* the rest of the handler, up to its return
FinishHandler ==
    /\ loop.phase = "finishing"
    /\ handler' = handle_call_tool(self, call.name, call.arguments, call.env).handler
    /\ result' = handle_call_tool(self, call.name, call.arguments, call.env).out
    /\ loop' = [loop EXCEPT !.phase = "returned"]
    /\ UNCHANGED <<os_type, call, listed, last_info, diag>>

\* the loop runs a step of the other task: only while no coroutine is running
OtherStep ==
    /\ loop.phase \in {"idle", "pending", "returned"}
    /\ loop.other_ready > 0
    /\ loop' = [loop EXCEPT !.other_ready = @ - 1, !.other_ran = @ + 1]
    /\ UNCHANGED <<os_type, call, handler, result, listed, last_info, diag>>

RespondLoop ==
    /\ loop.phase = "returned"
    /\ call' = NoCall
    /\ handler' = "none"
    /\ result' = NoResult
    /\ loop' = LoopIdle
    /\ UNCHANGED <<os_type, listed, last_info, diag>>

NextLoop ==
    \/ SubmitCpuMetrics
    \/ SubmitDiagnosePerformance
    \/ OtherReady
    \/ StartHandler
    \/ SampleTaken
    \/ FinishHandler
    \/ OtherStep
    \/ RespondLoop

SpecLoop == Construct({"Linux"}) /\ [][NextLoop]_vars

(***************************************************************************)
(* diagnose_performance step by step.  Time passes only inside             *)
(* psutil.cpu_percent(interval=1), which blocks for a second; in that      *)
(* second the host's I/O counters gain one of Gains.                       *)
(***************************************************************************)
Gains ==
    {NoCounters,
     [disk_read |-> 1, disk_write |-> 2, net_recv |-> 3, net_sent |-> 4],
     [disk_read |-> HighDiskRate + 1, disk_write |-> 0, net_recv |-> 0, net_sent |-> 7]}

Plus(a, b) ==
    [disk_read |-> a.disk_read + b.disk_read, disk_write |-> a.disk_write + b.disk_write,
     net_recv |-> a.net_recv + b.net_recv, net_sent |-> a.net_sent + b.net_sent]

DiagDuration == RangeLen(Get(call.arguments, "duration", PyInt(5)))

\* the request arrives and the handler is entered
DiagnoseBegin ==
    /\ Idle
    /\ diag.pc = "idle"
    /\ \E n \in 0..MaxDuration :
           call' = [kind |-> "call_tool", name |-> "diagnose_performance",
                    arguments |-> [k \in {"duration"} |-> PyInt(n)], env |-> NoEnv]
    /\ diag' = [NoDiag EXCEPT !.pc = "warm_up"]
    /\ UNCHANGED <<os_type, handler, result, listed, loop, last_info>>

\* cpu_before, mem_before: a reading that is not part of the series
WarmUp ==
    /\ diag.pc = "warm_up"
    /\ \E g \in Gains :
           diag' = [diag EXCEPT !.pc = "before", !.counters = Plus(@, g),
                                !.events = Append(@, "cpu_before")]
    /\ UNCHANGED <<os_type, call, handler, result, listed, loop, last_info>>

\* a snapshot of the counters as they stood when the handler was entered
TakeBeforeAtEntry ==
    /\ diag.pc = "before"
    /\ diag' = [diag EXCEPT !.pc = IF DiagDuration = 0 THEN "after" ELSE "sample",
                            !.before = NoCounters,
                            !.events = Append(@, "before")]
    /\ UNCHANGED <<os_type, call, handler, result, listed, loop, last_info>>

\* disk_io_before, net_io_before
TakeBefore ==
    /\ diag.pc = "before"
    /\ diag' = [diag EXCEPT !.pc = IF DiagDuration = 0 THEN "after" ELSE "sample",
                            !.before = diag.counters,
                            !.events = Append(@, "before")]
    /\ UNCHANGED <<os_type, call, handler, result, listed, loop, last_info>>

\* one pass of `for _ in range(duration)`
TakeSample ==
    /\ diag.pc = "sample"
    /\ \E g \in Gains, c \in {HighCpuAverage, HighCpuAverage + 1} :
           diag' = [diag EXCEPT !.pc = IF Len(diag.cpu) + 1 = DiagDuration
                                       THEN "after" ELSE "sample",
                                !.counters = Plus(@, g),
                                !.gained = Plus(@, g),
                                !.cpu = Append(@, c),
                                !.mem = Append(@, HighMemoryAverage),
                                !.events = Append(@, "sample")]
    /\ UNCHANGED <<os_type, call, handler, result, listed, loop, last_info>>

\* disk_io_after, net_io_after
TakeAfter ==
    /\ diag.pc = "after"
    /\ diag' = [diag EXCEPT !.pc = "analysis", !.after = diag.counters,
                            !.events = Append(@, "after")]
    /\ UNCHANGED <<os_type, call, handler, result, listed, loop, last_info>>

\* what the handler has read by now, as the analysis takes it
Readings ==
    [raises |-> NoExc, cpu |-> diag.cpu, mem |-> diag.mem,
     disk_read |-> diag.after.disk_read - diag.before.disk_read,
     disk_write |-> diag.after.disk_write - diag.before.disk_write,
     net_recv |-> diag.after.net_recv - diag.before.net_recv,
     net_sent |-> diag.after.net_sent - diag.before.net_sent,
     procs |-> <<>>]

\* averages, rates, bottlenecks, top consumers, and the return
Analyse ==
    /\ diag.pc = "analysis"
    /\ call' = [call EXCEPT !.env = Readings]
    /\ handler' = handle_call_tool(self, call.name, call.arguments, Readings).handler
    /\ result' = handle_call_tool(self, call.name, call.arguments, Readings).out
    /\ diag' = [diag EXCEPT !.pc = "done"]
    /\ UNCHANGED <<os_type, listed, loop, last_info>>

RespondDiagnose ==
    /\ diag.pc = "done"
    /\ call' = NoCall
    /\ handler' = "none"
    /\ result' = NoResult
    /\ diag' = NoDiag
    /\ UNCHANGED <<os_type, listed, loop, last_info>>

NextDiagnose ==
    \/ DiagnoseBegin
    \/ WarmUp
    \/ TakeBefore
    \/ TakeSample
    \/ TakeAfter
    \/ Analyse
    \/ RespondDiagnose

SpecDiagnose == Construct({"Linux"}) /\ [][NextDiagnose]_vars

(***************************************************************************)
(* Properties of the dispatcher and of the handlers' error handling.       *)
(***************************************************************************)
\* the tool catalog of the external interface, in declaration order
Catalog ==
    << "get_system_info", "get_cpu_metrics", "get_memory_metrics", "get_storage_metrics",
       "get_network_metrics", "get_processes", "get_installed_applications",
       "get_battery_status", "get_system_logs", "diagnose_performance",
       "get_hardware_recommendations", "get_motherboard_details", "get_computer_model" >>
CatalogSet == {Catalog[i] : i \in 1..Len(Catalog)}

KnownCall == call.kind = "call_tool" /\ call.name \in CatalogSet
UnknownCall == call.kind = "call_tool" /\ call.name \notin CatalogSet

\* the text of the one block a call returned
ResultText == result.content[1].text
ReturnedJson == result.outcome = "returned" /\ Len(result.content) = 1 /\ ResultText.fmt = "json"
ReturnedError == result.outcome = "returned" /\ Len(result.content) = 1 /\ ResultText.fmt = "plain"

\* "Error:" occurs in a text of words
HasErrorMarker(text) ==
    text.fmt = "plain" /\ \E i \in 1..Len(text.words) : text.words[i] = "Error:"

\* C1: whatever fails inside the handler of a known tool (a data source that
\* throws, a bad argument value, the missing helper), the handler returns
\* normally: no exception propagates to handle_call_tool.
C1_NoExceptionEscapes == KnownCall => result.outcome = "returned"

C1_Witness ==
    /\ KnownCall
    /\ call.name = "get_cpu_metrics"
    /\ call.env.raises = Exc("Exception", <<"Test", "error">>)
    /\ result.outcome = "returned"

\* C2: for every known tool, when the data provider throws, the text of the
\* returned result contains the marker "Error:".
C2_ErrorMarkerOnFailure ==
    (KnownCall /\ call.env.raises # NoExc) =>
        (result.outcome = "returned" /\ Len(result.content) = 1 /\ HasErrorMarker(ResultText))

\* C3: a call with a name that is no registered tool fails with an error (no
\* text result, no handler invoked) and leaves the server's state as it was.
C3_UnknownToolFails ==
    [][ (call'.kind = "call_tool" /\ call'.name \notin CatalogSet) =>
            /\ result'.outcome = "raised"
            /\ result'.exc.type = "ValueError"
            /\ result'.content = <<>>
            /\ handler' = "none"
            /\ os_type' = os_type ]_vars

C3_Witness == UnknownCall /\ call.name = "unknown_tool" /\ result.outcome = "raised"

\* C4: list_tools always returns the 13 descriptors of the catalog, in
\* declaration order and with pairwise distinct names, and handle_call_tool
\* routes each of these names, and no other, to the handler of that name.
C4_CatalogAndRouting ==
    /\ call.kind = "list_tools" =>
          /\ Len(listed) = 13
          /\ \A i \in 1..Len(listed) : listed[i].name = Catalog[i]
          /\ \A i, j \in 1..Len(listed) : listed[i].name = listed[j].name => i = j
    /\ KnownCall => handler = call.name
    /\ UnknownCall => handler = "none"

C4_Witness == call.kind = "list_tools" /\ Len(listed) = 13

\* C5: every call to a known tool returns a list of exactly one text block,
\* on the success path, the no-battery path and the error path.
C5_OneTextBlock ==
    KnownCall =>
        /\ result.outcome = "returned"
        /\ Len(result.content) = 1
        /\ result.content[1].type = "text"

C5_Witness ==
    /\ KnownCall
    /\ call.name = "get_battery_status"
    /\ ~call.env.battery.present
    /\ call.env.raises = NoExc
    /\ ReturnedJson
    /\ ResultText.doc = [status |-> NoBatteryStatus]

\* C6: for every use_case, get_hardware_recommendations returns a successful
\* JSON result with current_specs, upgrade_recommendations and the static
\* compatibility_notes.
C6_RecommendationsSucceed ==
    (KnownCall /\ call.name = "get_hardware_recommendations" /\ call.env.raises = NoExc) =>
        /\ ReturnedJson
        /\ {"current_specs", "upgrade_recommendations", "compatibility_notes"}
               \subseteq DOMAIN ResultText.doc
        /\ ResultText.doc.compatibility_notes = CompatibilityNotes

\* C7: while get_cpu_metrics or diagnose_performance waits out a sampling
\* interval, another task that is ready on the same event loop can take a
\* step before the sampling call completes.
C7_SamplingYields ==
    (loop.phase = "sampling" /\ loop.other_ready > 0) => ENABLED OtherStep

ProcessesCall == call.kind = "call_tool" /\ call.name = "get_processes"
MemoryProcessesCall ==
    /\ call.kind = "call_tool" /\ call.name = "get_memory_metrics"
    /\ Truthy(Get(call.arguments, "include_processes", PyBool(FALSE)))

RangeOf(seq) == {seq[i] : i \in 1..Len(seq)}
\* the processes of the table that stayed readable, and the ones that did not
ReadablePids(procs) == {procs[i].pid : i \in {j \in 1..Len(procs) : procs[j].fault = "none"}}
FaultyPids(procs) == {procs[i].pid : i \in {j \in 1..Len(procs) : procs[j].fault # "none"}}
PidsOf(records) == {records[i].pid : i \in 1..Len(records)}

\* C8: when the provider itself works, a process that vanished or denied
\* access (reading it raised, or its fields came back without a value) is left
\* out and every other process is in the normal JSON result of get_processes
\* (default limit) and of get_memory_metrics with include_processes.
C8_FaultyProcessSkipped ==
    /\ (ProcessesCall /\ call.env.raises = NoExc /\ "limit" \notin DOMAIN call.arguments)
          => /\ ReturnedJson
             /\ PidsOf(ResultText.doc.processes) = ReadablePids(call.env.procs)
    /\ (MemoryProcessesCall /\ call.env.raises = NoExc)
          => /\ ReturnedJson
             /\ PidsOf(ResultText.doc.top_processes) = ReadablePids(call.env.procs)

\* C9: with an integer limit, get_processes returns at most limit records,
\* none when the limit is 0 or negative, and total counts the processes
\* collected before truncation, so it is at least the number returned.
C9_AtMostLimit ==
    (/\ ProcessesCall /\ ReturnedJson
     /\ "limit" \in DOMAIN call.arguments /\ TypeOf(call.arguments["limit"]) = "int")
    => LET limit == ValOf(call.arguments["limit"])
           returned == ResultText.doc.processes
       IN /\ Len(returned) <= (IF limit < 0 THEN 0 ELSE limit)
          /\ ResultText.doc.total = Cardinality(ReadablePids(call.env.procs))
          /\ ResultText.doc.total >= Len(returned)

SortKeys == {PyStr("cpu"), PyStr("memory"), PyStr("name"), PyStr("pid")}
SortField(sort_by) ==
    CASE sort_by = PyStr("cpu") -> "cpu_percent"
      [] sort_by = PyStr("memory") -> "memory_percent"
      [] sort_by = PyStr("name") -> "name"
      [] OTHER -> "pid"
\* a comes strictly before b in the order the sort key asks for
RanksBefore(a, b, sort_by) ==
    IF sort_by \in {PyStr("cpu"), PyStr("memory")}
    THEN KeyOf(a, SortField(sort_by)) > KeyOf(b, SortField(sort_by))
    ELSE KeyOf(a, SortField(sort_by)) < KeyOf(b, SortField(sort_by))

\* the records of every readable process of the table
Collected(procs) ==
    {ProcessRecord(ProcInfo(procs[i])) : i \in {j \in 1..Len(procs) : procs[j].fault = "none"}}
ProcessesSorted ==
    /\ ProcessesCall /\ ReturnedJson
    /\ Get(call.arguments, "sort_by", PyStr("cpu")) \in SortKeys

\* C10: get_processes sorts, then truncates: the returned records are records
\* of the collected processes in the order of the sort key (cpu and memory
\* non-increasing, name and pid non-decreasing), no collected process that was
\* left out ranks strictly before a returned one, and a limit of 0 or more
\* returns min(limit, total) of them.
C10_SortThenTruncate ==
    ProcessesSorted =>
        LET sort_by == Get(call.arguments, "sort_by", PyStr("cpu"))
            limit == Get(call.arguments, "limit", PyInt(20))
            returned == ResultText.doc.processes
            collected == Collected(call.env.procs)
        IN /\ RangeOf(returned) \subseteq collected
           /\ Cardinality(RangeOf(returned)) = Len(returned)
           /\ \A i \in 1..(Len(returned) - 1) : ~RanksBefore(returned[i + 1], returned[i], sort_by)
           /\ \A o \in collected \ RangeOf(returned) :
                  \A i \in 1..Len(returned) : ~RanksBefore(o, returned[i], sort_by)
           /\ (TypeOf(limit) = "int" /\ ValOf(limit) >= 0)
                  => Len(returned) = (IF ValOf(limit) < Cardinality(collected)
                                      THEN ValOf(limit) ELSE Cardinality(collected))

\* three processes whose cpu order is not their pid order: the last one
\* enumerated is returned first, and one with a lower reading is left out
C10_Witness ==
    /\ ProcessesSorted
    /\ Get(call.arguments, "sort_by", PyStr("cpu")) = PyStr("cpu")
    /\ "limit" \in DOMAIN call.arguments /\ call.arguments["limit"] = PyInt(2)
    /\ Len(call.env.procs) = 3
    /\ Len(ResultText.doc.processes) = 2
    /\ ResultText.doc.total = 3
    /\ ResultText.doc.processes[1].pid = 3
    /\ ResultText.doc.processes[1].cpu_percent > ResultText.doc.processes[2].cpu_percent
    /\ \E o \in Collected(call.env.procs) \ RangeOf(ResultText.doc.processes) :
           o.pid = 2 /\ o.cpu_percent < ResultText.doc.processes[1].cpu_percent

\* the defaults the registry declares for a tool
DeclaredDefaults(name) ==
    handle_list_tools[CHOOSE i \in 1..Len(handle_list_tools) : handle_list_tools[i].name = name].defaults
With(arguments, k, v) == [j \in {k} |-> v] @@ arguments
UndeclaredKey == "verbose"

\* C11: for every known tool, setting an absent declared parameter to the
\* default its input schema declares gives the result the call gave without
\* it, and adding a key the schema does not declare changes nothing either.
C11_DefaultsAndUnknownKeys ==
    KnownCall =>
        /\ \A k \in DOMAIN DeclaredDefaults(call.name) \ DOMAIN call.arguments :
               handle_call_tool(self, call.name,
                                With(call.arguments, k, DeclaredDefaults(call.name)[k]),
                                call.env).out = result
        /\ \A v \in {PyStr("x"), PyInt(0 - 1), PyNone} :
               handle_call_tool(self, call.name, With(call.arguments, UndeclaredKey, v),
                                call.env).out = result

\* get_processes without arguments over two processes: the default limit of
\* 20 keeps both
C11_Witness ==
    /\ ProcessesCall /\ call.arguments = NoArgs
    /\ ReturnedJson
    /\ DeclaredDefaults(call.name).limit = PyInt(20)
    /\ Len(ResultText.doc.processes) = 2

DiagnoseCall == call.kind = "call_tool" /\ call.name = "diagnose_performance"
DiagnoseDuration == Get(call.arguments, "duration", PyInt(5))

\* C12: with an integer duration of 1 or more and working providers,
\* diagnose_performance takes exactly duration CPU samples and duration
\* memory samples, reports an average that is at most the maximum of each
\* series, and with duration 1 reports average = maximum.
C12_SamplesAndAverages ==
    (/\ DiagnoseCall /\ call.env.raises = NoExc
     /\ TypeOf(DiagnoseDuration) = "int" /\ ValOf(DiagnoseDuration) >= 1)
    => /\ ReturnedJson
       /\ Len(cpu_samples_of(DiagnoseDuration, call.env)) = ValOf(DiagnoseDuration)
       /\ Len(mem_samples_of(DiagnoseDuration, call.env)) = ValOf(DiagnoseDuration)
       /\ ResultText.doc.duration_seconds = ValOf(DiagnoseDuration)
       /\ ResultText.doc.metrics.cpu.average_percent
              = RoundedQuotient(SumSeq(cpu_samples_of(DiagnoseDuration, call.env)),
                                ValOf(DiagnoseDuration))
       /\ ResultText.doc.metrics.cpu.average_percent <= ResultText.doc.metrics.cpu.max_percent
       /\ ResultText.doc.metrics.memory.average_percent
              <= ResultText.doc.metrics.memory.max_percent
       /\ ValOf(DiagnoseDuration) = 1
              => /\ ResultText.doc.metrics.cpu.average_percent
                        = ResultText.doc.metrics.cpu.max_percent
                 /\ ResultText.doc.metrics.memory.average_percent
                        = ResultText.doc.metrics.memory.max_percent

\* two samples that differ: the average lies strictly below the maximum
C12_Witness ==
    /\ DiagnoseCall /\ ReturnedJson
    /\ DiagnoseDuration = PyInt(2)
    /\ call.env.cpu[1] # call.env.cpu[2]
    /\ ResultText.doc.metrics.cpu.average_percent < ResultText.doc.metrics.cpu.max_percent

\* C13: diagnose_performance with an integer duration of 0 or less either
\* returns an error text (no metrics), or gives what duration = 1 gives; it
\* never reports metrics of an empty series.
C13_NonPositiveDuration ==
    (DiagnoseCall /\ TypeOf(DiagnoseDuration) = "int" /\ ValOf(DiagnoseDuration) <= 0)
    => \/ ReturnedError /\ HasErrorMarker(ResultText)
       \/ result = handle_call_tool(self, call.name,
                                    With(call.arguments, "duration", PyInt(1)), call.env).out

\* duration 0 on a working host: the division by the empty series' length
\* is reported as the error text
C13_Witness ==
    /\ DiagnoseCall /\ call.env.raises = NoExc
    /\ DiagnoseDuration = PyInt(0)
    /\ ReturnedError
    /\ ResultText = ErrorText(ZeroDivisionError)

\* the flags of a result, as a set
Flagged == RangeOf(ResultText.doc.bottlenecks)

\* C14: in a successful diagnose_performance result, HIGH_CPU_USAGE is flagged
\* exactly when the CPU samples average strictly above 80, HIGH_MEMORY_USAGE
\* exactly when the memory samples average strictly above 85, HIGH_DISK_IO
\* exactly when the read or the write rate is strictly above 100 MB/s; there
\* is no other flag, whatever the network rates are.
C14_BottleneckFlags ==
    (DiagnoseCall /\ ReturnedJson) =>
        LET n == ResultText.doc.duration_seconds
            cpu == cpu_samples_of(DiagnoseDuration, call.env)
            mem == mem_samples_of(DiagnoseDuration, call.env)
        IN /\ "HIGH_CPU_USAGE" \in Flagged <=> SumSeq(cpu) > 80 * n
           /\ "HIGH_MEMORY_USAGE" \in Flagged <=> SumSeq(mem) > 85 * n
           /\ "HIGH_DISK_IO" \in Flagged
                  <=> (call.env.disk_read > 100 * n \/ call.env.disk_write > 100 * n)
           /\ Flagged \subseteq {"HIGH_CPU_USAGE", "HIGH_MEMORY_USAGE", "HIGH_DISK_IO"}
           /\ Len(ResultText.doc.bottlenecks) = Cardinality(Flagged)
           /\ Len(ResultText.doc.recommendations) = Len(ResultText.doc.bottlenecks)

\* memory exactly at 85 on average and a busy network: only the CPU, above
\* 80 on average, is flagged
C14_Witness ==
    /\ DiagnoseCall /\ ReturnedJson
    /\ DiagnoseDuration = PyInt(2)
    /\ call.env.cpu = <<80, 81>>
    /\ call.env.mem = <<85, 85>>
    /\ call.env.disk_read = 0 /\ call.env.disk_write = 0
    /\ call.env.net_sent > 100 * 2
    /\ ResultText.doc.bottlenecks = <<"HIGH_CPU_USAGE">>

BatteryCall == call.kind = "call_tool" /\ call.name = "get_battery_status"

\* C15: when the host reports no battery, get_battery_status returns a JSON
\* result whose only field is the sentinel status (no percent, power_plugged,
\* time_remaining, power_hungry_processes), and the processes are not
\* enumerated: a process provider that would fail is never reached.
C15_NoBatterySentinel ==
    (BatteryCall /\ call.env.raises = NoExc /\ ~call.env.battery.present)
    => /\ ReturnedJson
       /\ DOMAIN ResultText.doc = {"status"}
       /\ ResultText.doc.status = "No battery detected (desktop system)"
       /\ \A p \in ProcLists(HotLoads, 1) :
              get_battery_status(call.arguments, [call.env EXCEPT !.procs = p]) = result

C15_Witness ==
    /\ BatteryCall /\ ~call.env.battery.present
    /\ call.env.raises = NoExc /\ call.env.iter_raises = ProcessIterFailure
    /\ ReturnedJson
    /\ DOMAIN ResultText.doc = {"status"}

\* C16: with a battery present, time_remaining is "Plugged in" (plugged) or
\* "Calculating..." (unplugged) whenever the provider reports the remaining
\* time as unknown (-1) or unlimited (-2); otherwise it is "{h}h {m}m" with
\* h >= 0, 0 <= m <= 59 and h*3600 + m*60 <= seconds left < h*3600 + (m+1)*60.
C16_TimeRemaining ==
    (BatteryCall /\ ReturnedJson /\ call.env.battery.present) =>
        LET battery == call.env.battery
            t == ResultText.doc.time_remaining
        IN IF battery.secsleft \in {0 - 1, 0 - 2}
           THEN /\ t.fmt = "text"
                /\ t.text = (IF battery.power_plugged THEN "Plugged in" ELSE "Calculating...")
           ELSE /\ t.fmt = "hm"
                /\ t.hours >= 0
                /\ t.minutes \in 0..59
                /\ t.hours * 3600 + t.minutes * 60 <= battery.secsleft
                /\ battery.secsleft < t.hours * 3600 + (t.minutes + 1) * 60

StorageCall == call.kind = "call_tool" /\ call.name = "get_storage_metrics"
UsageOk(part) == part.usage = NoExc
\* the other providers work, and a usage query fails with a permission
\* error or not at all
OnlyPermissionErrors ==
    /\ StorageCall /\ call.env.raises = NoExc
    /\ Truthy(Get(call.arguments, "include_io_stats", PyBool(FALSE))) => call.env.io_raises = NoExc
    /\ \A i \in 1..Len(call.env.parts) :
           call.env.parts[i].usage = NoExc \/ call.env.parts[i].usage.type = "PermissionError"

\* C17: in get_storage_metrics a partition whose usage query raises a
\* permission error is left out; the result is a normal JSON result whose
\* partitions are the partitions whose usage query succeeded, in enumeration
\* order, one record each.
C17_DeniedPartitionSkipped ==
    OnlyPermissionErrors =>
        LET readable == SelectSeq(call.env.parts, UsageOk)
        IN /\ ReturnedJson
           /\ Len(ResultText.doc.partitions) = Len(readable)
           /\ \A i \in 1..Len(readable) :
                  ResultText.doc.partitions[i].device = readable[i].device

\* the first of two partitions denies access: the second one is reported
C17_Witness ==
    /\ OnlyPermissionErrors /\ ReturnedJson
    /\ Len(call.env.parts) = 2
    /\ call.env.parts[1].usage # NoExc
    /\ call.env.parts[2].usage = NoExc
    /\ Len(ResultText.doc.partitions) = 1
    /\ ResultText.doc.partitions[1].device = call.env.parts[2].device

InventoryCall ==
    call.kind = "call_tool" /\ call.name \in {"get_motherboard_details", "get_computer_model"}
ReturnedMarkdown ==
    result.outcome = "returned" /\ Len(result.content) = 1 /\ ResultText.fmt = "markdown"

\* C18: the Markdown of get_motherboard_details and get_computer_model never
\* shows a value that is "Unknown" or empty: not as the value of a field, and
\* not as the description of a memory slot.
C18_UnknownNeverRendered ==
    (InventoryCall /\ ReturnedMarkdown) =>
        \A i \in 1..Len(ResultText.lines) :
            LET line == ResultText.lines[i]
            IN /\ line.kind = "field" => line.value \notin {"", "Unknown"}
               /\ line.kind = "slot" => line.key \notin {"", "Unknown"}

RulesEvaluated == call.kind = "rules" /\ ReturnedJson

When(cond, entry) == IF cond THEN <<entry>> ELSE <<>>
\* the rule table as the claim states it
RuleTable(use_case, cores, ram, usage, ssd_detected) ==
    (CASE use_case = PyStr("gaming") ->
            When(cores < 6, [component |-> "CPU", reason |-> "gaming"])
            \o When(ram < 16, [component |-> "RAM", reason |-> "gaming"])
            \o <<[component |-> "GPU", reason |-> "gaming"]>>
       [] use_case = PyStr("content_creation") ->
            When(cores < 8, [component |-> "CPU", reason |-> "content_creation"])
            \o When(ram < 32, [component |-> "RAM", reason |-> "content_creation"])
            \o <<[component |-> "Storage", reason |-> "content_creation"]>>
       [] use_case = PyStr("development") ->
            When(ram < 16, [component |-> "RAM", reason |-> "development"])
            \o <<[component |-> "Storage", reason |-> "development"]>>
       [] use_case = PyStr("productivity") ->
            When(ram < 8, [component |-> "RAM", reason |-> "productivity"])
            \o <<[component |-> "Storage", reason |-> "productivity"]>>
       [] OTHER -> <<>>)
    \o When(usage > 80, [component |-> "RAM",
                         reason |-> IF ram < 16 THEN "Add 16GB RAM" ELSE "Add 32GB RAM"])
    \o When(~ssd_detected, [component |-> "Storage", reason |-> "No SSD detected"])

C20_SystemInfoIdempotent ==
    (Len(last_info.calls) = 2 /\ last_info.calls[1].host = last_info.calls[2].host)
    => /\ last_info.calls[1].info.os_type = last_info.calls[2].info.os_type
       /\ last_info.calls[1].info.hostname = last_info.calls[2].info.hostname
       /\ last_info.calls[1].info.architecture = last_info.calls[2].info.architecture
       /\ last_info.calls[1].info.physical_cores = last_info.calls[2].info.physical_cores
       /\ last_info.calls[1].info.logical_cores = last_info.calls[2].info.logical_cores

\* a second call a day later on the same host, just answered
C20_Witness ==
    /\ call.kind = "call_tool" /\ call.name = "get_system_info" /\ ReturnedJson
    /\ Len(last_info.calls) = 2
    /\ last_info.calls[1].host = last_info.calls[2].host
    /\ last_info.calls[1].uptime_seconds = 0
    /\ last_info.calls[2].uptime_seconds = 90000
    /\ ResultText.doc.system_info = last_info.calls[2].info

\* ---------------------------------------------------------------------
\* C21: no tool call, successful or failing, leaves a trace in the server
\* object: os_type keeps the value it got in __init__ through every step,
\* the registry listed at any time is the one the descriptors define, and
\* once the response is out the server is back in the state it was
\* constructed in.  (The argument map is a value here: the handlers reach it
\* through Get alone, as the code reaches it through arguments.get alone.)
Constructed ==
    /\ call = NoCall
    /\ handler = "none"
    /\ result = NoResult
    /\ listed = <<>>

VariantOf(os) ==
    IF os = "Windows" THEN "windows" ELSE IF os = "Darwin" THEN "macos" ELSE "linux"

ApplicationsOf(variant, env) ==
    CASE variant = "windows" -> _get_windows_applications(env)
      [] variant = "macos" -> _get_macos_applications(env)
      [] OTHER -> _get_linux_applications(env)

LogsOf(variant, log_type, limit, env) ==
    CASE variant = "windows" -> _get_windows_logs(log_type, limit, env)
      [] variant = "macos" -> _get_macos_logs(log_type, limit, env)
      [] OTHER -> _get_linux_logs(log_type, limit, env)

MotherboardOf(variant, include_bios, include_slots, env) ==
    CASE variant = "windows" -> _get_windows_motherboard_details(include_bios, include_slots, env)
      [] variant = "macos" -> _get_macos_motherboard_details(include_bios, include_slots, env)
      [] OTHER -> _get_linux_motherboard_details(include_bios, include_slots, env)

ComputerModelOf(variant, include_details, env) ==
    CASE variant = "windows" -> _get_windows_computer_model(include_details, env)
      [] variant = "macos" -> _get_macos_computer_model(include_details, env)
      [] OTHER -> _get_linux_computer_model(include_details, env)

ToolCall(name) == call.kind = "call_tool" /\ call.name = name

C22_OneVariantByOsType ==
    LET v == VariantOf(os_type)
        a == call.arguments
        e == call.env
    IN /\ (ToolCall("get_installed_applications") /\ ReturnedJson) =>
              ResultText.doc.applications = ApplicationsOf(v, e)
       /\ ToolCall("get_system_logs") =>
              LET probe == LogsOf(v, Get(a, "log_type", PyStr("system")),
                                  Get(a, "limit", PyInt(100)), e)
              IN IF probe.exc = NoExc
                 THEN ReturnedJson /\ ResultText.doc.logs = probe.val
                 ELSE ReturnedError
       /\ (ToolCall("get_motherboard_details") /\ ReturnedMarkdown) =>
              LET ib == Get(a, "include_bios", PyBool(TRUE))
                  is == Get(a, "include_slots", PyBool(TRUE))
              IN /\ MotherboardProbe(self, ib, is, e).variant = v
                 /\ ResultText.lines = RenderMotherboard(self, ib, MotherboardOf(v, ib, is, e), e)
       /\ (ToolCall("get_computer_model") /\ ReturnedMarkdown) =>
              LET id == Get(a, "include_details", PyBool(TRUE))
              IN /\ ComputerModelProbe(self, id, e).variant = v
                 /\ ResultText.lines = RenderComputerModel(self, id, ComputerModelOf(v, id, e), e)

\* a host that is none of the three named platforms is served by the Linux
\* probe: dmidecode exits non-zero and the board is read from /sys
C22_Witness ==
    /\ os_type = "FreeBSD"
    /\ ToolCall("get_motherboard_details")
    /\ ReturnedMarkdown
    /\ call.env.primary = "nonzero"
    /\ call.env.sysfs # <<>>
    /\ \E i \in 1..Len(ResultText.lines) :
           ResultText.lines[i] = Field(<<"product", "Board-1">>)

\* ---------------------------------------------------------------------
\* C23: in diagnose_performance the counter snapshot 'before' is taken
\* before the first sample of the series, the duration samples follow one
\* after another, and the snapshot 'after' is taken only after the last of
\* them; each reported rate is (after - before) / duration of its own
\* counter, so it is what that counter gained while the loop ran.
Repeat(x, n) == [i \in 1..n |-> x]

C23_CountersBracketLoop ==
    /\ (diag.pc \in {"analysis", "done"}) =>
           diag.events = <<"cpu_before", "before">> \o Repeat("sample", DiagDuration)
                         \o <<"after">>
    /\ (diag.pc = "done" /\ ReturnedJson) =>
           LET n == DiagDuration
               m == ResultText.doc.metrics
           IN /\ m.disk_io.read_rate_mb_s = RoundedQuotient(diag.gained.disk_read, n)
              /\ m.disk_io.write_rate_mb_s = RoundedQuotient(diag.gained.disk_write, n)
              /\ m.network_io.receive_rate_mb_s = RoundedQuotient(diag.gained.net_recv, n)
              /\ m.network_io.send_rate_mb_s = RoundedQuotient(diag.gained.net_sent, n)
              /\ diag.after = Plus(diag.before, diag.gained)

\* two samples; the counters moved before the loop as well as inside it
C23_Witness ==
    /\ diag.pc = "done"
    /\ ReturnedJson
    /\ DiagDuration = 2
    /\ diag.before.disk_read = 1
    /\ diag.gained.net_sent = 11
    /\ ResultText.doc.metrics.network_io.send_rate_mb_s = 550

\* ---------------------------------------------------------------------
\* C24: in every successful diagnose_performance result bottlenecks and
\* recommendations have the same length, the i-th recommendation is the
\* fixed text of the i-th flag, no flag occurs twice, and the flags come in
\* the order HIGH_CPU_USAGE, HIGH_MEMORY_USAGE, HIGH_DISK_IO.
FlagRank(flag) ==
    CASE flag = "HIGH_CPU_USAGE" -> 1
      [] flag = "HIGH_MEMORY_USAGE" -> 2
      [] flag = "HIGH_DISK_IO" -> 3
      [] OTHER -> 0

FixedText(flag) ==
    CASE flag = "HIGH_CPU_USAGE" -> "CPU is heavily utilized."
      [] flag = "HIGH_MEMORY_USAGE" -> "Memory usage is high."
      [] flag = "HIGH_DISK_IO" -> "High disk I/O detected."
      [] OTHER -> ""

C24_FlagsAndRecommendations ==
    (DiagnoseCall /\ ReturnedJson) =>
        LET b == ResultText.doc.bottlenecks
            r == ResultText.doc.recommendations
        IN /\ Len(b) = Len(r)
           /\ \A i \in 1..Len(b) : FlagRank(b[i]) > 0 /\ r[i] = FixedText(b[i])
           /\ \A i, j \in 1..Len(b) : i < j => FlagRank(b[i]) < FlagRank(b[j])

\* all three flags at once, with both disk counters over the threshold
C24_Witness ==
    /\ DiagnoseCall
    /\ ReturnedJson
    /\ Len(ResultText.doc.bottlenecks) = 3
    /\ Len(ResultText.doc.recommendations) = 3
    /\ call.env.disk_read > HighDiskRate * ResultText.doc.duration_seconds
    /\ call.env.disk_write > HighDiskRate * ResultText.doc.duration_seconds

\* ---------------------------------------------------------------------
\* C25: in diagnose_performance top_cpu_processes holds only processes with
\* cpu_percent > 10 and top_memory_processes only processes with
\* memory_percent > 5; each list is in non-increasing order of its own
\* field, has at most 5 entries and holds the highest-ranked processes that
\* qualify; a process that cannot be read is left out and the call succeeds.
Reading(p, field) == IF field = "cpu_percent" THEN p.cpu ELSE p.mem

Qualifying(procs, field, threshold) ==
    {i \in 1..Len(procs) : procs[i].fault = "none"
                           /\ Reading(procs[i], field) > Percent(threshold)}

TopListOk(list, procs, field, threshold) ==
    LET q == Qualifying(procs, field, threshold)
    IN /\ \A k \in 1..Len(list) :
              \E i \in q : /\ procs[i].pid = list[k].pid
                           /\ procs[i].name = list[k].name
                           /\ Reading(procs[i], field) = list[k].value
       /\ \A k, l \in 1..Len(list) : k < l => list[k].value >= list[l].value
       /\ \A k, l \in 1..Len(list) : k # l => list[k].pid # list[l].pid
       /\ Len(list) <= TopConsumers
       /\ Len(list) = (IF Cardinality(q) < TopConsumers THEN Cardinality(q) ELSE TopConsumers)
       /\ \A i \in q : procs[i].pid \notin PidsOf(list) =>
              \A k \in 1..Len(list) : list[k].value >= Reading(procs[i], field)

LogsLimit == Get(call.arguments, "limit", PyInt(100))

C26_AtMostLimitLogs ==
    (/\ ToolCall("get_system_logs")
     /\ TypeOf(LogsLimit) = "int" /\ ValOf(LogsLimit) >= 0
     /\ ReturnedJson) =>
        /\ Len(ResultText.doc.logs) <= ValOf(LogsLimit)
        /\ ResultText.doc.count = Len(ResultText.doc.logs)

\* ---------------------------------------------------------------------
\* C27: an include flag that is false takes its part out of the output on
\* every platform and leaves the rest as it is with the flag true:
\* include_bios=false, no BIOS/UEFI section; include_slots=false, no
\* memory-slot lines; include_details=false, no System Details section.
RECURSIVE WithoutSection(_, _, _)
\* the lines without the section of that title; inside says whether the
\* lines at hand still belong to it
WithoutSection(lines, title, inside) ==
    IF lines = <<>> THEN <<>>
    ELSE LET line == Head(lines)
             starts == line.kind = "heading" /\ line.key = title
             ends == line.kind = "heading" /\ line.key # title
             drop == starts \/ (inside /\ ~ends)
         IN (IF drop THEN <<>> ELSE <<line>>)
            \o WithoutSection(Tail(lines), title, drop)

IsSlotLine(line) == line.kind \in {"slot", "slots"}
WithoutSlots(lines) == SelectSeq(lines, LAMBDA line : ~IsSlotLine(line))
HasSection(lines, title) ==
    \E i \in 1..Len(lines) : lines[i].kind = "heading" /\ lines[i].key = title

\* the lines the same call returns when the flag is true
LinesWith(flag) ==
    handle_call_tool(self, call.name, With(call.arguments, flag, PyBool(TRUE)),
                     call.env).out.content[1].text.lines

FlagOff(name, flag) ==
    /\ ToolCall(name)
    /\ ReturnedMarkdown
    /\ flag \in DOMAIN call.arguments
    /\ call.arguments[flag] = PyBool(FALSE)

C27_FlagsRemoveTheirPart ==
    /\ FlagOff("get_motherboard_details", "include_bios") =>
           /\ ~HasSection(ResultText.lines, "BIOS/UEFI Information")
           /\ ResultText.lines =
                  WithoutSection(LinesWith("include_bios"), "BIOS/UEFI Information", FALSE)
    /\ FlagOff("get_motherboard_details", "include_slots") =>
           /\ \A i \in 1..Len(ResultText.lines) : ~IsSlotLine(ResultText.lines[i])
           /\ WithoutSection(ResultText.lines, "Memory Information", FALSE) =
                  WithoutSection(LinesWith("include_slots"), "Memory Information", FALSE)
    /\ FlagOff("get_computer_model", "include_details") =>
           /\ ~HasSection(ResultText.lines, "System Details")
           /\ ResultText.lines =
                  WithoutSection(LinesWith("include_details"), "System Details", FALSE)

\* ---------------------------------------------------------------------
\* C28: the Linux installed-applications probe tries dpkg, then rpm: rpm
\* answers whenever dpkg did not succeed (it is missing or exits non-zero)
\* and never when dpkg succeeded; when both fail the list is empty and the
\* call still returns its JSON document.
LinuxVariant == os_type \notin {"Windows", "Darwin"}

C28_DpkgThenRpm ==
    (ToolCall("get_installed_applications") /\ LinuxVariant /\ call.env.raises = NoExc) =>
        /\ ReturnedJson
        /\ ResultText.doc.applications =
               (CASE call.env.dpkg = "ok" ->
                        AppRecords(call.env.apps, {"name", "version", "description"})
                  [] call.env.rpm = "ok" ->
                        AppRecords(call.env.apps, {"name", "version"})
                  [] OTHER -> <<>>)

\* ---------------------------------------------------------------------
\* C29: the Linux system-log probe tries journalctl first; the log file
\* under /var/log is read whenever journalctl did not succeed (it is missing
\* or exits non-zero) and never when it succeeded; when every source fails
\* the log list is empty and the call still returns its JSON document.
\* Stated for limits of 1 and more, where both sources take the limit alike.
C29_JournalThenFile ==
    (/\ ToolCall("get_system_logs") /\ LinuxVariant /\ call.env.raises = NoExc
     /\ TypeOf(LogsLimit) = "int" /\ ValOf(LogsLimit) >= 1) =>
        /\ ReturnedJson
        /\ ResultText.doc.logs =
               (CASE call.env.command = "ok" ->
                        Slice(Entries(call.env.avail), ValOf(LogsLimit))
                  [] call.env.file_exists ->
                        SliceFrom(Entries(call.env.avail), 0 - ValOf(LogsLimit))
                  [] OTHER -> <<>>)

\* ---------------------------------------------------------------------
\* C30: in the Linux motherboard and computer-model probes the files under
\* /sys/devices/virtual/dmi/id are the fallback whenever dmidecode gave no
\* basic information, in whichever way it failed (sudo or dmidecode cannot
\* be run, or it exits non-zero): a host with readable /sys entries always
\* gets a non-empty basic_info, and /sys is not used when dmidecode filled it.
LinuxBasicInfo ==
    IF call.name = "get_motherboard_details"
    THEN _get_linux_motherboard_details(Get(call.arguments, "include_bios", PyBool(TRUE)),
                                        Get(call.arguments, "include_slots", PyBool(TRUE)),
                                        call.env).basic_info
    ELSE _get_linux_computer_model(Get(call.arguments, "include_details", PyBool(TRUE)),
                                   call.env).basic_info

DmidecodeFilled == call.env.primary = "ok" /\ call.env.info.basic_info # <<>>

C30_SysfsFallback ==
    (InventoryCall /\ LinuxVariant /\ call.env.raises = NoExc) =>
        /\ ReturnedMarkdown
        /\ DmidecodeFilled => LinuxBasicInfo = call.env.info.basic_info
        /\ (~DmidecodeFilled /\ call.env.sysfs # <<>>) =>
               /\ LinuxBasicInfo = call.env.sysfs
               /\ HasSection(ResultText.lines, "Basic Information")

====
